---- MODULE Spec2Model ----
(***************************************************************************)
(* jellycli terminal client: the Window controller (view chain, focus and  *)
(* modal overlay) of ui/widgets, modelled from its Go source.              *)
(*                                                                         *)
(* The Window's fields are the variables.  Every handler is an operator    *)
(* from a Window record to a Window record, written statement by statement *)
(* in the order of the Go code, so that handlers that call other handlers  *)
(* (moveCtrl -> closeModal, selectAlbum -> setViewWidget) compose.  One    *)
(* action per UI event applies the handler the toolkit dispatches to.      *)
(*                                                                         *)
(* Toolkit boundary (cview / twidgets, outside the repository): the input  *)
(* focus is kept at the granularity of the primitive given to SetFocus (a  *)
(* screen stands for itself and its sub-widgets); SetFocus blurs the old   *)
(* focus and focuses the new one; a key reaches the focused primitive only *)
(* when the Window's input capture does not consume it.                    *)
(***************************************************************************)
EXTENDS Integers, Sequences, FiniteSets, TLC

\* ------------------------------------------------------------------ bounds
\* UI events handled in one run of the program.
MaxEvents == 4
\* The same, for runs made of navigation events only.
MaxNavEvents == 7
\* Largest number of items a catalogue fetch returns.
MaxItems == 1
\* Largest page index a page selector requests.
MaxPage == 1
MaxCallEvents == 4
\* events of a run in which only keys are pressed
MaxKeyEvents == 4
\* events of a run in which the user searches
MaxSearchEvents == 4
\* items one Search call may return
MaxFound == 3
\* events of a run in which pages of album lists are selected
MaxPageEvents == 3
\* events of a run in which fetches are followed call by call
MaxFetchEvents == 4
\* events of a run in which search results are opened
MaxResultEvents == 4
\* events of a run in which the queue and the history change
MaxAsyncEvents == 5
\* functions waiting in the application's update queue
MaxQueued == 2
\* player state messages sent to the Gui
MaxMsgs == 3
\* largest capacity of the channels handed to AssignChannels
MaxChanCap == 1

\* ------------------------------------------------------------------ universe
Nil == "nil"

Modals == {"help", "message"}

Screens ==
  {"artistList", "albumList", "similarAlbums", "album", "latestAlbums",
   "favoriteAlbums", "playlists", "playlist", "songs", "genres",
   "searchResultsTop", "queue", "history"}

AlbumLists == {"albumList", "similarAlbums", "latestAlbums", "favoriteAlbums"}

Prims == Screens \cup Modals \cup {"mediaNav"}

MediaSelect ==
  {"MediaLatestMusic", "MediaRecent", "MediaArtists", "MediaAlbumArtists",
   "MediaAlbums", "MediaSongs", "MediaPlaylists", "MediaFavoriteArtists",
   "MediaFavoriteAlbums", "MediaGenres"}

\* Result of a call to the item collaborator: an error, or n items.
Fetches ==
  {[ok |-> FALSE, n |-> 0]} \cup {[ok |-> TRUE, n |-> k] : k \in 0..MaxItems}

VARIABLES
  appState,           \* "running" | "stopped" (app.Stop) | "panicked"
  hasModal,           \* Window.hasModal
  modal,              \* Window.modal
  lastFocus,          \* Window.lastFocus
  focus,              \* app.GetFocus()
  hasFocus,           \* HasFocus() of every primitive
  visible,            \* SetVisible state of the two modals
  overlay,            \* the modal held by layout (twidgets.ModalLayout)
  gridView,           \* the content item of layout.Grid()
  mediaView,          \* Window.mediaView
  mediaViewSelected,  \* Window.mediaViewSelected
  last,               \* previous.last of every screen
  view,               \* what every screen shows
  navCount,           \* counts shown by mediaNav (SetCount)
  msgText,            \* text of the message modal
  helpStats,          \* whether help holds fetched statistics
  songsShowPage,      \* w.songs.showPage
  results,            \* result lists held by searchResultsTop
  updates,            \* functions queued with app.QueueUpdateDraw
  events,             \* number of events handled
  budget,             \* number of events the run may handle
  lastOp,             \* the last event and the Window methods it ran
  shown,              \* focus captured when the open modal was shown
  closeObs,           \* observation at the last successful closeModal
  drillStack,         \* screens left by the running drill-down sequence
  backObs,            \* observation at the last back of that sequence
  scen,               \* progress of the Artists scenario
  enq,                \* songs passed to the last queue and history callback
  callObs,            \* what keyHandler did with the last key
  inflight,           \* the catalogue call a handler has made and not got back
  applyObs,           \* whether the last fetch result applied was a stale one
  assigned,           \* Gui.stateChan and Gui.actionChan are not nil
  stateChan,          \* messages in Gui.stateChan
  sent,               \* messages the player has sent
  chanCap,            \* capacity of the channels assigned
  actionLen,          \* actions in Gui.actionChan
  stopFired,          \* the termination signal has fired
  stopReady,          \* a receive from StopChan() can proceed
  stopTaken,          \* the loop has received from StopChan()
  afterStop,          \* messages received after stopTaken
  loopPc,             \* position of Gui.loop
  loopMsg,            \* the loop's local variable state
  lock,               \* Gui.lock: "free", "W" or "R"
  lastState,          \* Gui.lastState (0: nil)
  pending,            \* redraws handed to gui.Update, not yet run
  scheduled,          \* number of gui.Update calls
  uiPc,               \* position of the gocui main loop thread
  uiTag,              \* message whose redraw the UI thread runs
  uiState,            \* updateState's local variable state
  progress,           \* state shown by the status bar (0: none)
  drawn,              \* redraws run, and whether the shown state ever went back
  alist,              \* an AlbumList: its rows, albumCovers and drop-down
  pview,              \* a PlaylistView: its rows, songs and focus flags
  wobs,               \* what the last widget or Gui operation did
  guiRun              \* the gocui main loop under Gui.Show: frames laid out,
                      \* what MainLoop returned, how Show ended

wvars ==
  <<appState, hasModal, modal, lastFocus, focus, hasFocus, visible, overlay,
    gridView, mediaView, mediaViewSelected, last, view, navCount, msgText,
    helpStats, songsShowPage, results, updates>>

gvars ==
  <<events, budget, lastOp, shown, closeObs, drillStack, backObs, scen, enq>>

ovars == <<callObs, inflight, applyObs>>

guivars ==
  <<assigned, stateChan, sent, chanCap, actionLen, stopFired, stopReady,
    stopTaken, afterStop, loopPc, loopMsg, lock, lastState, pending, scheduled,
    uiPc, uiTag, uiState, progress, drawn>>

cvars == <<alist, pview, wobs, guiRun>>

vars == <<wvars, gvars, ovars, guivars, cvars>>

\* The Window as one record, for the handlers to transform.
W ==
  [appState |-> appState, hasModal |-> hasModal, modal |-> modal,
   lastFocus |-> lastFocus, focus |-> focus, hasFocus |-> hasFocus,
   visible |-> visible, overlay |-> overlay, gridView |-> gridView,
   mediaView |-> mediaView, mediaViewSelected |-> mediaViewSelected,
   last |-> last, view |-> view, navCount |-> navCount, msgText |-> msgText,
   helpStats |-> helpStats, songsShowPage |-> songsShowPage,
   results |-> results, updates |-> updates]

Commit(w) ==
  /\ appState' = w.appState
  /\ hasModal' = w.hasModal
  /\ modal' = w.modal
  /\ lastFocus' = w.lastFocus
  /\ focus' = w.focus
  /\ hasFocus' = w.hasFocus
  /\ visible' = w.visible
  /\ overlay' = w.overlay
  /\ gridView' = w.gridView
  /\ mediaView' = w.mediaView
  /\ mediaViewSelected' = w.mediaViewSelected
  /\ last' = w.last
  /\ view' = w.view
  /\ navCount' = w.navCount
  /\ msgText' = w.msgText
  /\ helpStats' = w.helpStats
  /\ songsShowPage' = w.songsShowPage
  /\ results' = w.results
  /\ updates' = w.updates

\* ------------------------------------------------------------------ toolkit
\* app.SetFocus(p): the old focus is blurred, p (when not nil) is focused.
SetFocus(w, p) ==
  [w EXCEPT !.focus = p,
            !.hasFocus = [q \in Prims |->
                            IF q = p THEN TRUE
                            ELSE IF q = w.focus THEN FALSE
                            ELSE w.hasFocus[q]]]

\* p.Blur() on a non-nil primitive.
Blur(w, p) == [w EXCEPT !.hasFocus[p] = FALSE]

\* ------------------------------------------------------------------ screens
\* An item of a list is named by the screen that lists it and its row.
NoItem == <<>>

\* What a screen shows: the fetch that filled it, its size, its header text,
\* its mode flags, its page and the artist or album it is about.
EmptyView(paging, similar) ==
  [src |-> "none", n |-> 0, title |-> "", paging |-> paging,
   similar |-> similar, artistMode |-> FALSE, page |-> 0, total |-> 0,
   about |-> NoItem, artist |-> NoItem]

InitView ==
  [s \in Screens |->
     CASE s = "albumList" -> EmptyView(TRUE, TRUE)
       [] s = "similarAlbums" -> EmptyView(FALSE, TRUE)
       [] s = "latestAlbums" -> EmptyView(FALSE, FALSE)
       [] s = "favoriteAlbums" -> EmptyView(TRUE, FALSE)
       [] OTHER -> EmptyView(FALSE, FALSE)]

\* ------------------------------------------------------------------ Window
\* Variant of setViewWidget that never stores the previous link.
setViewWidgetNoPrevious(w, p, updatePrevious) ==
  IF p = w.mediaView THEN w
  ELSE
    LET w1 == [w EXCEPT !.lastFocus = w.focus, !.gridView = p]
        w2 == SetFocus(w1, p)
    IN [w2 EXCEPT !.mediaView = p]

\* Variant of setViewWidget that chains p to the screen it replaces whatever
\* updatePrevious says.
setViewWidgetAlwaysPrevious(w, p, updatePrevious) ==
  IF p = w.mediaView THEN w
  ELSE
    LET lastView == w.mediaView
        w1 == [w EXCEPT !.lastFocus = w.focus, !.gridView = p]
        w2 == SetFocus(w1, p)
        w3 == [w2 EXCEPT !.mediaView = p]
    IN [w3 EXCEPT !.last[p] = lastView]

\* set central widget; if updatePrevious, chain p to the screen it replaces
setViewWidget(w, p, updatePrevious) ==
  IF p = w.mediaView THEN w
  ELSE
    LET lastView == w.mediaView
        w1 == [w EXCEPT !.lastFocus = w.focus, !.gridView = p]
        w2 == SetFocus(w1, p)
        w3 == [w2 EXCEPT !.mediaView = p]
    IN IF updatePrevious THEN [w3 EXCEPT !.last[p] = lastView] ELSE w3

goBack(w, p) == setViewWidget(w, p, FALSE)

\* Screens given a back callback by NewWindow.
HasBackCallback ==
  {"artistList", "albumList", "similarAlbums", "album", "playlist", "genres",
   "songs", "queue", "history"}

\* previous.goBack of screen s (its Back button): follow the previous link,
\* nothing when there is none.
screenGoBack(w, s) ==
  IF s \in HasBackCallback /\ w.last[s] # Nil THEN goBack(w, w.last[s]) ELSE w

\* Variant of closeModal without the hasModal check.
closeModalUnguarded(w, m) ==
  LET w1 == Blur(w, m)
      w2 == [w1 EXCEPT !.visible[m] = FALSE,
                       !.overlay = IF w1.overlay = m THEN Nil ELSE w1.overlay,
                       !.hasModal = FALSE,
                       !.modal = Nil]
      w3 == SetFocus(w2, w2.lastFocus)
  IN [w3 EXCEPT !.lastFocus = Nil]

\* Variant of closeModal that keeps the reference to the closed modal.
closeModalKeepsModal(w, m) ==
  IF w.hasModal
  THEN LET w1 == Blur(w, m)
           w2 == [w1 EXCEPT !.visible[m] = FALSE,
                            !.overlay = IF w1.overlay = m THEN Nil ELSE w1.overlay,
                            !.hasModal = FALSE]
           w3 == SetFocus(w2, w2.lastFocus)
       IN [w3 EXCEPT !.lastFocus = Nil]
  ELSE w

closeModal(w, m) ==
  IF w.hasModal
  THEN LET w1 == Blur(w, m)
           w2 == [w1 EXCEPT !.visible[m] = FALSE,
                            !.overlay = IF w1.overlay = m THEN Nil ELSE w1.overlay,
                            !.hasModal = FALSE,
                            !.modal = Nil]
           w3 == SetFocus(w2, w2.lastFocus)
       IN [w3 EXCEPT !.lastFocus = Nil]
  ELSE w

\* Variant of showModal without the hasModal check: modals stack.
showModalStacking(w, m) ==
  LET w1 == [w EXCEPT !.hasModal = TRUE, !.modal = m, !.lastFocus = w.focus]
  IN IF w1.lastFocus = Nil
     THEN [w1 EXCEPT !.appState = "panicked"]
     ELSE LET w2 == Blur(w1, w1.lastFocus)
              w3 == [w2 EXCEPT !.overlay = m]
              w4 == SetFocus(w3, m)
          IN [w4 EXCEPT !.visible[m] = TRUE]

showModal(w, m) ==
  IF ~w.hasModal
  THEN LET w1 == [w EXCEPT !.hasModal = TRUE, !.modal = m, !.lastFocus = w.focus]
       IN IF w1.lastFocus = Nil
          THEN [w1 EXCEPT !.appState = "panicked"]   \* nil.Blur()
          ELSE LET w2 == Blur(w1, w1.lastFocus)
                   w3 == [w2 EXCEPT !.overlay = IF w2.overlay = Nil THEN m ELSE w2.overlay]
                   w4 == SetFocus(w3, m)
               IN [w4 EXCEPT !.visible[m] = TRUE]
  ELSE w

showMessage(w, msg) == showModal([w EXCEPT !.msgText = msg], "message")

closeMessage(w) == closeModal(w, "message")

NavKeys == {"Quit", "Help", "Search", "Queue", "History"}

navBarCtrl(w, key) ==
  CASE key = "Quit" -> [w EXCEPT !.appState = "stopped"]
    [] key = "Help" -> showModal([w EXCEPT !.helpStats = TRUE], "help")
    [] key = "Search" ->
         setViewWidget(
           [w EXCEPT !.view["searchResultsTop"].src = "none",
                     !.view["searchResultsTop"].n = 0],
           "searchResultsTop", TRUE)
    [] key = "Queue" ->
         setViewWidget(IF w.hasFocus["help"] THEN closeModal(w, "help") ELSE w,
                       "queue", TRUE)
    [] key = "History" ->
         setViewWidget(IF w.hasFocus["help"] THEN closeModal(w, "help") ELSE w,
                       "history", TRUE)
    [] OTHER -> w

\* moveCtrl on tcell.KeyTAB
moveCtrl(w) ==
  LET w0 == IF w.hasModal THEN closeModal(w, w.modal) ELSE w
  IN IF w0.mediaViewSelected
     THEN LET w1 == [w0 EXCEPT !.lastFocus = w0.mediaView]
              w2 == SetFocus(w1, "mediaNav")
              w3 == IF w2.lastFocus # Nil THEN Blur(w2, w2.lastFocus) ELSE w2
          IN [w3 EXCEPT !.mediaViewSelected = FALSE]
     ELSE LET w1 == [w0 EXCEPT !.lastFocus = w0.focus]
              w2 == SetFocus(w1, w1.mediaView)
              w3 == [w2 EXCEPT !.mediaViewSelected = TRUE]
          IN IF w3.lastFocus # Nil THEN Blur(w3, w3.lastFocus) ELSE w3

\* Keys bound in config.KeyBinds.Global.
PlaybackKeys ==
  {"Stop", "PlayPause", "VolumeDown", "VolumeUp", "Next", "Previous",
   "Forward", "Backward"}

\* A call on the player or queue collaborator: on "ui" when made by the
\* handler itself, on "go" when started with a go statement.
Call(fn, on) == [fn |-> fn, on |-> on]

\* Variant of mediaCtrl in which the seek keys are not bound.
mediaCtrlNoSeek(key) ==
  CASE key = "Stop" -> <<Call("StopMedia", "ui"), Call("ClearQueue", "ui")>>
    [] key = "PlayPause" -> <<Call("PlayPause", "ui")>>
    [] key = "VolumeDown" -> <<Call("SetVolume-5", "go")>>
    [] key = "VolumeUp" -> <<Call("SetVolume+5", "go")>>
    [] key = "Next" -> <<Call("Next", "ui")>>
    [] key = "Previous" -> <<Call("Previous", "ui")>>
    [] OTHER -> <<>>

\* mediaCtrl: the collaborator calls made for the key; none is `return false`.
mediaCtrl(key) ==
  CASE key = "Stop" -> <<Call("StopMedia", "ui"), Call("ClearQueue", "ui")>>
    [] key = "PlayPause" -> <<Call("PlayPause", "ui")>>
    [] key = "VolumeDown" -> <<Call("SetVolume-5", "go")>>
    [] key = "VolumeUp" -> <<Call("SetVolume+5", "go")>>
    [] key = "Next" -> <<Call("Next", "ui")>>
    [] key = "Previous" -> <<Call("Previous", "ui")>>
    [] key = "Forward" -> <<Call("Seek+3000", "ui")>>
    [] key = "Backward" -> <<Call("Seek-3000", "ui")>>
    [] OTHER -> <<>>

\* keyHandler: mediaCtrl, then navBarCtrl, then moveCtrl; out is what
\* eventHandler returns (Nil: the event is consumed).
keyHandler(w, key) ==
  IF mediaCtrl(key) # <<>>
  THEN [w |-> w, calls |-> mediaCtrl(key), ran |-> <<"mediaCtrl">>, out |-> Nil]
  ELSE IF key \in NavKeys
  THEN [w |-> navBarCtrl(w, key), calls |-> <<>>,
        ran |-> <<"mediaCtrl", "navBarCtrl">>, out |-> Nil]
  ELSE IF key = "Tab"
  THEN [w |-> moveCtrl(w), calls |-> <<>>,
        ran |-> <<"mediaCtrl", "navBarCtrl", "moveCtrl">>, out |-> Nil]
  ELSE [w |-> w, calls |-> <<>>,
        ran |-> <<"mediaCtrl", "navBarCtrl", "moveCtrl">>, out |-> key]

\* ------------------------------------------------------------------ search
\* config.AppConfig.Player.SearchTypes, in configuration order
SearchTypes == <<"Artist", "Album">>

\* what one Search call may return
SearchFetches ==
  {[ok |-> FALSE, n |-> 0]} \cup {[ok |-> TRUE, n |-> k] : k \in 0..MaxFound}

SearchCall(itemType) == [fn |-> "Search", on |-> "ui", type |-> itemType]

\* SearchTopList.ClearResults: no result list is left
ClearResults(w) == [w EXCEPT !.results = <<>>]

\* SearchTopList.addItems: the type's result list is added after the others
addItems(w, itemType, n) ==
  [w EXCEPT !.results = Append(w.results, [type |-> itemType, n |-> n])]

\* Variant of the loop of searchCb that ends at the first failing Search.
RECURSIVE searchTypesUntilError(_, _, _)
searchTypesUntilError(r, fs, i) ==
  IF i > Len(SearchTypes) THEN r
  ELSE IF ~fs[i].ok
  THEN [w |-> r.w, calls |-> Append(r.calls, SearchCall(SearchTypes[i]))]
  ELSE searchTypesUntilError(
         [w |-> IF fs[i].n > 0 THEN addItems(r.w, SearchTypes[i], fs[i].n) ELSE r.w,
          calls |-> Append(r.calls, SearchCall(SearchTypes[i]))],
         fs, i + 1)

\* the loop of searchCb from the i-th type on; fs[i] is what the i-th Search
\* call returns
RECURSIVE searchTypes(_, _, _)
searchTypes(r, fs, i) ==
  IF i > Len(SearchTypes) THEN r
  ELSE searchTypes(
         [w |-> IF fs[i].ok /\ fs[i].n > 0
                THEN addItems(r.w, SearchTypes[i], fs[i].n)
                ELSE r.w,
          calls |-> Append(r.calls, SearchCall(SearchTypes[i]))],
         fs, i + 1)

\* searchCb: the Window after it and the Search calls it made
searchCb(w, fs) == searchTypes([w |-> ClearResults(w), calls |-> <<>>], fs, 1)

\* ------------------------------------------------------------------ fetches
\* AlbumList.EnablePaging (the other lists are taken to behave alike)
EnablePaging(w, s, enabled) == [w EXCEPT !.view[s].paging = enabled]

EnableSimilar(w, s, enabled) == [w EXCEPT !.view[s].similar = enabled]

EnableArtistMode(w, s, enabled) == [w EXCEPT !.view[s].artistMode = enabled]

\* AlbumList.Clear: the list and its backing slice are emptied
Clear(w, s) == [w EXCEPT !.view[s].src = "none", !.view[s].n = 0]

\* AlbumList.SetAlbums, AddArtists, SetPlaylists, setGenres: n items of fetch src
SetItems(w, s, src, n) == [w EXCEPT !.view[s].src = src, !.view[s].n = n]

SetText(w, s, text) == [w EXCEPT !.view[s].title = text]

\* AlbumList.SetArtist: the artist and the header text made from it
SetArtist(w, s, artist, text) ==
  [w EXCEPT !.view[s].artist = artist, !.view[s].title = text]

\* AlbumList.SetPage with paging.SetTotalItems(total) applied
SetPage(w, s, page, total) ==
  [w EXCEPT !.view[s].page = page, !.view[s].total = total]

\* SongList.SetSongs(songs, page)
SetSongs(w, src, f, page) ==
  SetPage(SetItems(w, "songs", src, f.n), "songs", page, f.n)

SetCount(w, m, count) == [w EXCEPT !.navCount[m] = count]

\* ------------------------------------------------------------------ updates
\* Before the queue controller has called back: no songs passed for either
\* screen (-1).
NoCallback == [s \in {"queue", "history"} |-> -1]

\* The event loop running the newest queued function and forgetting the rest.
runUpdateNewestOnly(w) ==
  LET f == w.updates[Len(w.updates)]
      w1 == [w EXCEPT !.updates = <<>>]
  IN IF f.screen = "queue"
     THEN [w |-> SetItems(w1, "queue", "QueueChanged", f.n),
           calls |-> <<Call("GetSelectedIndex", "ui"), Call("SetSongs", "ui"),
                       Call("SetSelected", "ui")>>]
     ELSE [w |-> SetItems(w1, "history", "HistoryChanged", f.n),
           calls |-> <<Call("SetSongs", "ui")>>]

\* app.QueueUpdateDraw(f): f is run later by the application's event loop
QueueUpdateDraw(w, f) == [w EXCEPT !.updates = Append(w.updates, f)]

\* Variant of the queue-changed callback that sets the songs itself.
queueChangedDirect(w, n) ==
  [w |-> SetItems(w, "queue", "QueueChanged", n),
   calls |-> <<Call("SetSongs", "caller")>>]

\* the callback given to AddQueueChangedCallback, called with n songs: the
\* Window after it and the screen accesses it made on the calling thread
queueChanged(w, n) ==
  [w |-> QueueUpdateDraw(w, [screen |-> "queue", n |-> n]), calls |-> <<>>]

\* the callback given to SetHistoryChangedCallback
historyChanged(w, n) ==
  [w |-> QueueUpdateDraw(w, [screen |-> "history", n |-> n]), calls |-> <<>>]

\* The event loop runs the oldest queued function.
runUpdate(w) ==
  LET f == Head(w.updates)
      w1 == [w EXCEPT !.updates = Tail(w.updates)]
  IN IF f.screen = "queue"
     THEN [w |-> SetItems(w1, "queue", "QueueChanged", f.n),
           calls |-> <<Call("GetSelectedIndex", "ui"), Call("SetSongs", "ui"),
                       Call("SetSelected", "ui")>>]
     ELSE [w |-> SetItems(w1, "history", "HistoryChanged", f.n),
           calls |-> <<Call("SetSongs", "ui")>>]

\* ------------------------------------------------------------------ handlers
showGenrePage(w, page, f) ==
  IF ~f.ok THEN w
  ELSE setViewWidget(
         SetItems(SetPage(w, "genres", page, f.n), "genres", "GetGenres", f.n),
         "genres", TRUE)

\* the MediaSongs / MediaRecent case
selectMediaSongs(w, m, f, limitRecent) ==
  LET w1 == IF ~f.ok THEN w
            ELSE IF m = "MediaSongs"
            THEN SetText(SetCount([w EXCEPT !.songsShowPage = "selectSongs"],
                                  m, f.n),
                         "songs", "All albums")
            ELSE LET w2 == SetText([w EXCEPT !.songsShowPage = "showRecentSongsPage"],
                                   "songs", "Recently played")
                 IN IF ~limitRecent THEN SetCount(w2, m, f.n) ELSE w2
      src == IF m = "MediaSongs" THEN "GetSongs" ELSE "GetRecentlyPlayed"
  IN setViewWidget(SetSongs(w1, src, f, 0), "songs", TRUE)

\* the MediaArtists / MediaAlbumArtists case
selectMediaArtists(w, m, f) ==
  IF ~f.ok THEN w
  ELSE LET src == IF m = "MediaArtists" THEN "GetArtists" ELSE "GetAlbumArtists"
           title == IF m = "MediaArtists" THEN "All artists" ELSE "All album artists"
           w1 == SetCount(w, m, f.n)
           w2 == SetPage(EnablePaging(Clear(w1, "artistList"), "artistList", TRUE),
                         "artistList", 0, f.n)
           w3 == setViewWidget(SetItems(w2, "artistList", src, f.n),
                               "artistList", TRUE)
       IN SetText(w3, "artistList", title)

\* the MediaAlbums / MediaFavoriteAlbums case
selectMediaAlbums(w, m, f) ==
  LET all == (m = "MediaAlbums")
      list == IF all THEN "albumList" ELSE "favoriteAlbums"
      src == IF all THEN "GetAlbums" ELSE "GetFavoriteAlbums"
      title == IF all THEN "All Albums" ELSE "Favorite albums"
      w1 == EnablePaging(w, "albumList", all)
  IN IF ~f.ok THEN w1
     ELSE LET w2 == SetCount(w1, m, f.n)
              w3 == Clear(SetPage(w2, list, 0, f.n), list)
              w4 == EnableArtistMode(EnableSimilar(w3, list, FALSE), list, FALSE)
              w5 == SetItems(SetText(w4, list, title), list, src, f.n)
          IN setViewWidget(w5, list, TRUE)

selectMedia(w, m, f, limitRecent) ==
  CASE m = "MediaLatestMusic" ->
         IF ~f.ok THEN w
         ELSE LET w1 == SetCount(w, m, f.n)
                  w2 == SetItems(Clear(w1, "latestAlbums"), "latestAlbums",
                                 "GetLatestAlbums", f.n)
                  w3 == SetArtist(w2, "latestAlbums", <<"pseudo", 0>>, "Latest albums")
              IN setViewWidget(w3, "latestAlbums", TRUE)
    [] m = "MediaFavoriteArtists" ->
         IF ~f.ok THEN w
         ELSE LET w1 == SetText(Clear(w, "artistList"), "artistList", "Favorite artists")
                  w2 == SetCount(EnablePaging(w1, "artistList", FALSE), m, f.n)
              IN setViewWidget(SetItems(w2, "artistList", "GetFavoriteArtists", f.n),
                               "artistList", TRUE)
    [] m = "MediaPlaylists" ->
         IF ~f.ok THEN w
         ELSE setViewWidget(
                SetItems(SetCount(w, m, f.n), "playlists", "GetPlaylists", f.n),
                "playlists", TRUE)
    [] m \in {"MediaSongs", "MediaRecent"} -> selectMediaSongs(w, m, f, limitRecent)
    [] m \in {"MediaArtists", "MediaAlbumArtists"} -> selectMediaArtists(w, m, f)
    [] m \in {"MediaAlbums", "MediaFavoriteAlbums"} -> selectMediaAlbums(w, m, f)
    [] m = "MediaGenres" -> showGenrePage(w, 0, f)

\* The screen selectMedia fills and shows for a category.
MediaTarget ==
  [m \in MediaSelect |->
     CASE m = "MediaLatestMusic" -> "latestAlbums"
       [] m \in {"MediaFavoriteArtists", "MediaArtists", "MediaAlbumArtists"} ->
            "artistList"
       [] m = "MediaPlaylists" -> "playlists"
       [] m \in {"MediaSongs", "MediaRecent"} -> "songs"
       [] m = "MediaAlbums" -> "albumList"
       [] m = "MediaFavoriteAlbums" -> "favoriteAlbums"
       [] m = "MediaGenres" -> "genres"]

\* Variant of selectArtist that clears the album list before the fetch returns.
selectArtistClearFirst(w, artist, f) ==
  IF ~f.ok THEN Clear(w, "albumList")
  ELSE LET w1 == EnableArtistMode(Clear(w, "albumList"), "albumList", TRUE)
           w2 == EnableSimilar(EnablePaging(w1, "albumList", FALSE), "albumList", TRUE)
           w3 == SetArtist(w2, "albumList", artist, "artist")
       IN setViewWidget(SetItems(w3, "albumList", "GetArtistAlbums", f.n),
                        "albumList", TRUE)

selectArtist(w, artist, f) ==
  IF ~f.ok THEN w
  ELSE LET w1 == EnableArtistMode(Clear(w, "albumList"), "albumList", TRUE)
           w2 == EnableSimilar(EnablePaging(w1, "albumList", FALSE), "albumList", TRUE)
           w3 == SetArtist(w2, "albumList", artist, "artist")
       IN setViewWidget(SetItems(w3, "albumList", "GetArtistAlbums", f.n),
                        "albumList", TRUE)

\* f: GetAlbumSongs, artistOk: whether GetAlbumArtist succeeds
selectAlbum(w, album, f, artistOk) ==
  IF ~f.ok THEN w
  ELSE LET w1 == IF artistOk THEN [w EXCEPT !.view["album"].artist = album] ELSE w
           w2 == [w1 EXCEPT !.view["album"].about = album,
                            !.view["album"].src = "GetAlbumSongs",
                            !.view["album"].n = f.n]
           w3 == [w2 EXCEPT !.last["album"] = w2.mediaView]
       IN setViewWidget(w3, "album", TRUE)

selectPlaylist(w, playlist, f) ==
  IF ~f.ok THEN w
  ELSE setViewWidget(
         [w EXCEPT !.view["playlist"].about = playlist,
                   !.view["playlist"].src = "GetPlaylistSongs",
                   !.view["playlist"].n = f.n],
         "playlist", TRUE)

selectGenre(w, genre, f) ==
  IF ~f.ok THEN w
  ELSE LET w1 == EnablePaging(Clear(w, "albumList"), "albumList", FALSE)
           w2 == EnableArtistMode(EnableSimilar(w1, "albumList", FALSE),
                                  "albumList", FALSE)
           w3 == SetText(SetItems(w2, "albumList", "GetGenreAlbums", f.n),
                         "albumList", "Genre")
       IN setViewWidget(w3, "albumList", TRUE)

showSimilarAlbums(w, album, f) ==
  IF ~f.ok THEN w
  ELSE IF f.n > 0
  THEN LET w1 == EnableSimilar(Clear(w, "similarAlbums"), "similarAlbums", FALSE)
           w2 == SetItems(EnablePaging(w1, "similarAlbums", FALSE), "similarAlbums",
                          "GetSimilarAlbums", f.n)
       IN setViewWidget(SetText(w2, "similarAlbums", "Similar albums"),
                        "similarAlbums", TRUE)
  ELSE showMessage(w, "No similar albums")

showSimilarArtists(w, artist, f) ==
  IF ~f.ok THEN w
  ELSE IF f.n > 0
  THEN LET w1 == SetItems(Clear(w, "artistList"), "artistList",
                          "GetSimilarArtists", f.n)
       IN setViewWidget(SetText(w1, "artistList", "Similar artists"),
                        "artistList", TRUE)
  ELSE showMessage(w, "No similar artists")

selectSongs(w, page, f) ==
  setViewWidget(SetSongs(w, "GetSongs", f, page), "songs", TRUE)

showRecentSongsPage(w, page, f) ==
  setViewWidget(SetSongs(w, "GetRecentlyPlayed", f, page), "songs", TRUE)

showArtistPage(w, page, f) ==
  IF ~f.ok THEN w
  ELSE setViewWidget(
         EnablePaging(SetItems(Clear(w, "artistList"), "artistList", "GetArtists", f.n),
                      "artistList", TRUE),
         "artistList", FALSE)

showAlbumPage(w, page, f) ==
  IF ~f.ok THEN w
  ELSE LET w1 == SetCount(w, "MediaAlbums", f.n)
           w2 == Clear(SetPage(w1, "albumList", page, f.n), "albumList")
       IN SetItems(EnablePaging(w2, "albumList", TRUE), "albumList", "GetAlbums", f.n)

ItemTypes == {"Album", "Artist", "Song", "Playlist", "Genre"}

\* The screen showSearchResults fills for an item type.
ResultScreen ==
  [t \in ItemTypes |->
     CASE t = "Album" -> "albumList"
       [] t = "Artist" -> "artistList"
       [] t = "Song" -> "songs"
       [] t = "Playlist" -> "playlists"
       [] t = "Genre" -> "genres"]

\* showSearchResults(itemType, results) with n results of that type.  A list
\* filled from results has src "results"; the genre list is given a slice of
\* n entries that are never assigned, src "nil".
showSearchResults(w, itemType, n) ==
  LET w1 == CASE itemType = "Album" ->
                   EnableSimilar(
                     SetItems(
                       SetText(EnablePaging(Clear(w, "albumList"), "albumList",
                                            FALSE),
                               "albumList", "Search results"),
                       "albumList", "results", n),
                     "albumList", FALSE)
              [] itemType = "Artist" ->
                   SetItems(EnablePaging(Clear(w, "artistList"), "artistList",
                                         FALSE),
                            "artistList", "results", n)
              [] itemType = "Song" ->
                   SetSongs(SetText(w, "songs", "Search results"), "results",
                            [ok |-> TRUE, n |-> n], 0)
              [] itemType = "Playlist" -> SetItems(w, "playlists", "results", n)
              [] itemType = "Genre" -> SetItems(w, "genres", "nil", n)
  IN setViewWidget(SetFocus(w1, "searchResultsTop"), ResultScreen[itemType],
                   TRUE)

\* selectPageFunc of every album list: NewWindow sets it on albumList only
selectPageFunc ==
  [s \in AlbumLists |-> IF s = "albumList" THEN "showAlbumPage" ELSE Nil]

\* AlbumList.selectPage(n): the page is stored, then selectPageFunc, when
\* set, is called with it; calls are the catalogue calls made
selectPage(w, s, page, f) ==
  LET w1 == [w EXCEPT !.view[s].page = page]
  IN IF selectPageFunc[s] # Nil
     THEN [w |-> showAlbumPage(w1, page, f),
           calls |-> <<[fn |-> "GetAlbums", on |-> "ui", page |-> page]>>]
     ELSE [w |-> w1, calls |-> <<>>]

\* ------------------------------------------------------------------ observers
\* History kept beside the Window so that properties over several steps of a
\* handler, or over several events, can be stated.  None of it is read by a
\* handler.
NoClose == [on |-> FALSE, want |-> Nil, got |-> Nil, lastFocus |-> Nil]

NoBack == [on |-> FALSE, want |-> Nil, got |-> Nil]

NoDrill == [stack |-> <<>>, backing |-> FALSE]

DrillEvents ==
  {"selectArtist", "selectAlbum", "selectPlaylist", "selectGenre",
   "showSimilarAlbums", "showSimilarArtists"}

\* The scenario Artists -> artist -> album -> Back -> Back -> Back.
ScenNext(ev, arg, ok) ==
  CASE scen = "start" /\ ev = "selectMedia" /\ arg = "MediaArtists" /\ ok -> "artists"
    [] scen = "artists" /\ ev = "selectArtist" /\ ok -> "albums"
    [] scen = "albums" /\ ev = "selectAlbum" /\ ok -> "album"
    [] scen = "album" /\ ev = "back" -> "back1"
    [] scen = "back1" /\ ev = "back" -> "back2"
    [] scen = "back2" /\ ev = "back" -> "back3"
    [] OTHER -> "off"

\* A handler that fetches nothing.
NoFetch == [ok |-> TRUE, n |-> 0]

\* One event: the handler took the Window from W to w2.  f is the result of
\* the handler's item fetch, allOk whether all its fetches succeeded, cm the
\* modal the handler passed to closeModal as its first statement (Nil: no
\* such call).
\* co is what the handler was seen to call.
NoKey == [calls |-> <<>>, ran |-> <<>>, out |-> Nil, ret |-> <<>>]

\* No catalogue call is under way.
NoFlight ==
  [ev |-> "none", arg |-> "", item |-> NoItem, on |-> "none", superseded |-> FALSE]

NoApply == [on |-> FALSE, stale |-> FALSE]

\* The thread a handler's catalogue call runs on: the handlers call
\* w.mediaItems directly, so it is the thread that runs the handler.
fetchThreadWorker(ev) == "worker"

fetchThread(ev) == "ui"

\* The event loop is free to take an event: no handler is waiting in it.
UiFree == inflight = NoFlight \/ inflight.on # "ui"

\* Events that ask for another screen.
NavRequest(ev, arg) ==
  \/ ev = "back"
  \/ ev = "key" /\ arg \in {"Search", "Queue", "History"}
  \/ ev \in {"selectMedia", "selectArtist", "selectAlbum", "selectPlaylist",
              "selectGenre", "showSimilarAlbums", "showSimilarArtists"}

\* fl and ao are the call under way and the observation after the event.
StepI(ev, arg, f, allOk, cm, w2, co, fl, ao) ==
  /\ events < budget
  /\ Commit(w2)
  /\ callObs' = co
  /\ inflight' = fl
  /\ applyObs' = ao
  /\ UNCHANGED <<guivars, cvars>>
  /\ events' = events + 1
  /\ budget' = budget
  /\ lastOp' = [ev |-> ev, arg |-> arg, ok |-> f.ok, n |-> f.n,
                hadModal |-> hasModal]
  /\ shown' = IF ~hasModal /\ w2.hasModal /\ w2.appState = "running" THEN focus
              ELSE IF w2.hasModal THEN shown
              ELSE Nil
  /\ closeObs' = IF cm # Nil /\ hasModal
                 THEN [on |-> TRUE, want |-> shown,
                       got |-> closeModal(W, cm).focus,
                       lastFocus |-> closeModal(W, cm).lastFocus]
                 ELSE NoClose
  /\ IF ev \in DrillEvents /\ f.ok /\ mediaView # Nil /\ w2.mediaView # mediaView
     THEN /\ drillStack' =
               [stack |-> Append(IF drillStack.backing THEN <<>> ELSE drillStack.stack,
                                 mediaView),
                backing |-> FALSE]
          /\ backObs' = NoBack
     ELSE IF ev = "back" /\ drillStack.stack # <<>>
     THEN /\ drillStack' =
               [stack |-> SubSeq(drillStack.stack, 1, Len(drillStack.stack) - 1),
                backing |-> TRUE]
          /\ backObs' = [on |-> TRUE,
                         want |-> drillStack.stack[Len(drillStack.stack)],
                         got |-> w2.mediaView]
     ELSE /\ drillStack' = NoDrill
          /\ backObs' = NoBack
  /\ scen' = ScenNext(ev, arg, allOk)
  /\ enq' = IF ev \in {"queueChanged", "historyChanged"}
            THEN [enq EXCEPT ![arg] = f.n]
            ELSE enq

\* An event taken by the event loop while it is free; a call still under
\* way on another thread is superseded when the event asks for a screen.
StepP(ev, arg, f, allOk, cm, w2, co) ==
  /\ UiFree
  /\ StepI(ev, arg, f, allOk, cm, w2, co,
           IF inflight # NoFlight /\ NavRequest(ev, arg)
           THEN [inflight EXCEPT !.superseded = TRUE]
           ELSE inflight,
           NoApply)

Step(ev, arg, f, allOk, cm, w2) ==
  StepP(ev, arg, f, allOk, cm, w2,
        IF ev = "key"
        THEN [calls |-> keyHandler(W, arg).calls, ran |-> keyHandler(W, arg).ran,
              out |-> keyHandler(W, arg).out, ret |-> <<>>]
        ELSE NoKey)

\* ------------------------------------------------------------------ events
\* The application's event loop runs: no app.Stop(), no panic.
Running == appState = "running"

\* Keys taken by the input capture (keyHandler): navBarCtrl, then moveCtrl.
KeyQuit ==
  /\ Running
  /\ Step("key", "Quit", NoFetch, TRUE, Nil, navBarCtrl(W, "Quit"))

KeyHelp ==
  /\ Running
  /\ Step("key", "Help", NoFetch, TRUE, Nil, navBarCtrl(W, "Help"))

KeySearch ==
  /\ Running
  /\ Step("key", "Search", NoFetch, TRUE, Nil, navBarCtrl(W, "Search"))

KeyQueue ==
  /\ Running
  /\ Step("key", "Queue", NoFetch, TRUE, IF hasFocus["help"] THEN "help" ELSE Nil,
          navBarCtrl(W, "Queue"))

KeyHistory ==
  /\ Running
  /\ Step("key", "History", NoFetch, TRUE, IF hasFocus["help"] THEN "help" ELSE Nil,
          navBarCtrl(W, "History"))

KeyTab ==
  /\ Running
  /\ Step("key", "Tab", NoFetch, TRUE, IF hasModal THEN modal ELSE Nil, moveCtrl(W))

\* a key bound to a playback function
KeyPlayback ==
  /\ Running
  /\ \E key \in PlaybackKeys :
       Step("key", key, NoFetch, TRUE, Nil, keyHandler(W, key).w)

\* The queue controller reports a changed queue, on its own thread.
QueueChangedCb ==
  /\ Len(updates) < MaxQueued
  /\ \E n \in 0..MaxItems :
       StepP("queueChanged", "queue", [ok |-> TRUE, n |-> n], TRUE, Nil,
             queueChanged(W, n).w,
             [calls |-> queueChanged(W, n).calls, ran |-> <<>>, out |-> Nil,
              ret |-> <<>>])

\* The queue controller reports a changed history, on its own thread.
HistoryChangedCb ==
  /\ Len(updates) < MaxQueued
  /\ \E n \in 0..MaxItems :
       StepP("historyChanged", "history", [ok |-> TRUE, n |-> n], TRUE, Nil,
             historyChanged(W, n).w,
             [calls |-> historyChanged(W, n).calls, ran |-> <<>>, out |-> Nil,
              ret |-> <<>>])

\* The event loop runs a queued function between two key events.
RunUpdate ==
  /\ Running
  /\ updates # <<>>
  /\ StepP("update", Head(updates).screen, NoFetch, TRUE, Nil, runUpdate(W).w,
           [calls |-> runUpdate(W).calls, ran |-> <<>>, out |-> Nil,
            ret |-> <<>>])

\* Enter on a category: selectMedia starts and makes its catalogue call.
BeginSelectMedia ==
  /\ Running
  /\ UiFree
  /\ inflight = NoFlight
  /\ events < budget
  /\ focus = "mediaNav"
  /\ \E m \in MediaSelect :
       inflight' = [ev |-> "selectMedia", arg |-> m, item |-> NoItem,
                    on |-> fetchThread("selectMedia"), superseded |-> FALSE]
  /\ UNCHANGED <<wvars, gvars, callObs, applyObs, guivars, cvars>>

\* Enter on an artist: selectArtist starts and calls GetArtistAlbums.
BeginSelectArtist ==
  /\ Running
  /\ UiFree
  /\ inflight = NoFlight
  /\ events < budget
  /\ focus = "artistList"
  /\ \E i \in 1..view["artistList"].n :
       inflight' = [ev |-> "selectArtist", arg |-> "artistList",
                    item |-> <<"artistList", i>>,
                    on |-> fetchThread("selectArtist"), superseded |-> FALSE]
  /\ UNCHANGED <<wvars, gvars, callObs, applyObs, guivars, cvars>>

\* The catalogue call returns f and the handler goes on with it.
CompleteFetch ==
  /\ Running
  /\ inflight # NoFlight
  /\ \E f \in Fetches :
       LET w2 == IF inflight.ev = "selectMedia"
                 THEN selectMedia(W, inflight.arg, f, FALSE)
                 ELSE selectArtist(W, inflight.item, f)
       IN StepI(inflight.ev, inflight.arg, f, f.ok, Nil, w2, NoKey, NoFlight,
                [on |-> w2.view # view /\ w2.mediaView # mediaView,
                 stale |-> inflight.superseded])

\* a page is chosen in the page selector of an album list that shows it
SelectPage ==
  \E s \in AlbumLists :
    /\ Running
    /\ focus = s
    /\ view[s].paging
    /\ \E page \in 0..MaxPage, f \in Fetches :
         /\ selectPageFunc[s] = Nil => f = NoFetch
         /\ StepP("selectPage", s, f, f.ok, Nil, selectPage(W, s, page, f).w,
                  [calls |-> selectPage(W, s, page, f).calls, ran |-> <<>>,
                   out |-> Nil, ret |-> <<f>>])

\* a query is submitted in the search screen
SearchSubmit ==
  /\ Running
  /\ focus = "searchResultsTop"
  /\ \E fs \in [1..Len(SearchTypes) -> SearchFetches] :
       StepP("searchCb", "query", NoFetch, \A i \in DOMAIN fs : fs[i].ok, Nil,
             searchCb(W, fs).w,
             [calls |-> searchCb(W, fs).calls, ran |-> <<>>, out |-> Nil,
              ret |-> fs])

\* Enter on a result list of the search results screen
ShowSearchResults ==
  /\ Running
  /\ focus = "searchResultsTop"
  /\ \E itemType \in ItemTypes, n \in 0 .. MaxFound :
       StepP("showSearchResults", itemType, [ok |-> TRUE, n |-> n], TRUE, Nil,
             showSearchResults(W, itemType, n), NoKey)

\* Escape reaches Help.InputHandler when help has the focus: closeCb
HelpEscape ==
  /\ Running
  /\ focus = "help"
  /\ Step("done", "help", NoFetch, TRUE, "help", closeModal(W, "help"))

\* the message modal's done function
MessageDone ==
  /\ Running
  /\ focus = "message"
  /\ Step("done", "message", NoFetch, TRUE, "message", closeMessage(W))

\* Enter on a row of the media navigation
SelectMedia ==
  /\ Running
  /\ focus = "mediaNav"
  /\ \E m \in MediaSelect, f \in Fetches, limitRecent \in BOOLEAN :
       /\ limitRecent => m = "MediaRecent"
       /\ Step("selectMedia", m, f, f.ok, Nil, selectMedia(W, m, f, limitRecent))

\* Enter on a row of a list screen: the list's select function
SelectArtist ==
  /\ Running
  /\ focus = "artistList"
  /\ \E i \in 1..view["artistList"].n, f \in Fetches :
       Step("selectArtist", "artistList", f, f.ok, Nil,
            selectArtist(W, <<"artistList", i>>, f))

SelectAlbum ==
  \E s \in AlbumLists :
    /\ Running
    /\ focus = s
    /\ \E i \in 1..view[s].n, f \in Fetches, artistOk \in BOOLEAN :
         /\ ~f.ok => artistOk
         /\ Step("selectAlbum", s, f, f.ok /\ artistOk, Nil,
                 selectAlbum(W, <<s, i>>, f, artistOk))

SelectPlaylist ==
  /\ Running
  /\ focus = "playlists"
  /\ \E i \in 1..view["playlists"].n, f \in Fetches :
       Step("selectPlaylist", "playlists", f, f.ok, Nil,
            selectPlaylist(W, <<"playlists", i>>, f))

SelectGenre ==
  /\ Running
  /\ focus = "genres"
  /\ \E i \in 1..view["genres"].n, f \in Fetches :
       Step("selectGenre", "genres", f, f.ok, Nil, selectGenre(W, <<"genres", i>>, f))

\* the album view's similar function
ShowSimilarAlbums ==
  /\ Running
  /\ focus = "album"
  /\ view["album"].about # NoItem
  /\ \E f \in Fetches :
       Step("showSimilarAlbums", "album", f, f.ok, Nil,
            showSimilarAlbums(W, view["album"].about, f))

\* the Back button of a screen
Back ==
  \E s \in Screens :
    /\ Running
    /\ focus = s
    /\ Step("back", s, NoFetch, TRUE, Nil, screenGoBack(W, s))

\* AlbumList.selectPage of the shared album list: the page is stored, then
\* selectPageFunc (showAlbumPage) runs
SelectAlbumPage ==
  /\ Running
  /\ focus = "albumList"
  /\ view["albumList"].paging
  /\ \E page \in 0..MaxPage, f \in Fetches :
       Step("showAlbumPage", "albumList", f, f.ok, Nil,
            showAlbumPage([W EXCEPT !.view["albumList"].page = page], page, f))

SelectArtistPage ==
  /\ Running
  /\ focus = "artistList"
  /\ view["artistList"].paging
  /\ \E page \in 0..MaxPage, f \in Fetches :
       Step("showArtistPage", "artistList", f, f.ok, Nil, showArtistPage(W, page, f))

SelectSongsPage ==
  /\ Running
  /\ focus = "songs"
  /\ \E page \in 0..MaxPage, f \in Fetches :
       IF songsShowPage = "selectSongs"
       THEN Step("selectSongs", "songs", f, f.ok, Nil, selectSongs(W, page, f))
       ELSE Step("showRecentSongsPage", "songs", f, f.ok, Nil,
                 showRecentSongsPage(W, page, f))

SelectGenrePage ==
  /\ Running
  /\ focus = "genres"
  /\ \E page \in 0..MaxPage, f \in Fetches :
       Step("showGenrePage", "genres", f, f.ok, Nil, showGenrePage(W, page, f))

\* ------------------------------------------------------------------ Gui
\* NewGui: no channel assigned, nothing received, nothing drawn; task.Task
\* starts the loop.
NewGui ==
  /\ assigned = FALSE
  /\ stateChan = <<>>
  /\ sent = 0
  /\ chanCap = 0
  /\ actionLen = 0
  /\ stopFired = FALSE
  /\ stopReady = FALSE
  /\ stopTaken = FALSE
  /\ afterStop = 0
  /\ loopPc = "select"
  /\ loopMsg = 0
  /\ lock = "free"
  /\ lastState = 0
  /\ pending = {}
  /\ scheduled = 0
  /\ uiPc = "idle"
  /\ uiTag = 0
  /\ uiState = 0
  /\ progress = 0
  /\ drawn = [n |-> 0, ordered |-> TRUE]

\* A step of the Gui and its collaborators leaves the Window alone.
GuiStep == UNCHANGED <<wvars, gvars, ovars, cvars>>

\* AssignChannels: both fields are nil until the first call
AssignChannels ==
  /\ ~assigned
  /\ \E c \in 0..MaxChanCap :
       /\ assigned' = TRUE
       /\ chanCap' = c
  /\ UNCHANGED <<stateChan, sent, actionLen, stopFired, stopReady, stopTaken,
                 afterStop, loopPc, loopMsg, lock, lastState, pending,
                 scheduled, uiPc, uiTag, uiState, progress, drawn>>
  /\ GuiStep

\* The player sends its next state; an unbuffered channel takes it when the
\* loop is at its select.
PlayerSends ==
  /\ assigned
  /\ sent < MaxMsgs
  /\ \/ Len(stateChan) < chanCap
     \/ chanCap = 0 /\ stateChan = <<>> /\ loopPc = "select"
  /\ sent' = sent + 1
  /\ stateChan' = Append(stateChan, sent + 1)
  /\ UNCHANGED <<assigned, chanCap, actionLen, stopFired, stopReady, stopTaken,
                 afterStop, loopPc, loopMsg, lock, lastState, pending,
                 scheduled, uiPc, uiTag, uiState, progress, drawn>>
  /\ GuiStep

\* The termination signal fires.
StopFires ==
  /\ ~stopFired
  /\ stopFired' = TRUE
  /\ stopReady' = TRUE
  /\ UNCHANGED <<assigned, stateChan, sent, chanCap, actionLen, stopTaken,
                 afterStop, loopPc, loopMsg, lock, lastState, pending,
                 scheduled, uiPc, uiTag, uiState, progress, drawn>>
  /\ GuiStep

\* case <-g.StopChan(): break leaves the select statement; the enclosing
\* `for true` goes on
loopStopCase == "select"

\* loop: the stop case is taken.  The signal stays receivable when StopChan()
\* is a closed channel and does not when it carried one value.
LoopTakesStop ==
  /\ loopPc = "select"
  /\ stopReady
  /\ ~stopTaken
  /\ stopTaken' = TRUE
  /\ stopReady' \in BOOLEAN
  /\ loopPc' = loopStopCase
  /\ UNCHANGED <<assigned, stateChan, sent, chanCap, actionLen, stopFired,
                 afterStop, loopMsg, lock, lastState, pending, scheduled,
                 uiPc, uiTag, uiState, progress, drawn>>
  /\ GuiStep

\* loop: case state := <-g.stateChan
LoopReceives ==
  /\ loopPc = "select"
  /\ stateChan # <<>>
  /\ loopMsg' = Head(stateChan)
  /\ stateChan' = Tail(stateChan)
  /\ afterStop' = IF stopTaken THEN afterStop + 1 ELSE afterStop
  /\ loopPc' = "lock"
  /\ UNCHANGED <<assigned, sent, chanCap, actionLen, stopFired, stopReady,
                 stopTaken, lock, lastState, pending, scheduled, uiPc, uiTag,
                 uiState, progress, drawn>>
  /\ GuiStep

\* loop: g.lock.Lock()
LoopLocks ==
  /\ loopPc = "lock"
  /\ lock = "free"
  /\ lock' = "W"
  /\ loopPc' = "store"
  /\ UNCHANGED <<assigned, stateChan, sent, chanCap, actionLen, stopFired,
                 stopReady, stopTaken, afterStop, loopMsg, lastState, pending,
                 scheduled, uiPc, uiTag, uiState, progress, drawn>>
  /\ GuiStep

\* loop: g.lastState = &state; g.lock.Unlock()
LoopStores ==
  /\ loopPc = "store"
  /\ lastState' = loopMsg
  /\ lock' = "free"
  /\ loopPc' = "update"
  /\ UNCHANGED <<assigned, stateChan, sent, chanCap, actionLen, stopFired,
                 stopReady, stopTaken, afterStop, loopMsg, pending, scheduled,
                 uiPc, uiTag, uiState, progress, drawn>>
  /\ GuiStep

\* loop: g.gui.Update(g.updateState) hands one redraw to the main loop
LoopUpdates ==
  /\ loopPc = "update"
  /\ pending' = pending \cup {loopMsg}
  /\ scheduled' = scheduled + 1
  /\ loopPc' = "select"
  /\ UNCHANGED <<assigned, stateChan, sent, chanCap, actionLen, stopFired,
                 stopReady, stopTaken, afterStop, loopMsg, lock, lastState,
                 uiPc, uiTag, uiState, progress, drawn>>
  /\ GuiStep

\* The main loop takes one of the redraws handed to it, in any order, and
\* updateState takes the read lock.
UiStartsRedraw ==
  /\ uiPc = "idle"
  /\ lock = "free"
  /\ \E t \in pending :
       /\ pending' = pending \ {t}
       /\ uiTag' = t
  /\ lock' = "R"
  /\ uiPc' = "read"
  /\ UNCHANGED <<assigned, stateChan, sent, chanCap, actionLen, stopFired,
                 stopReady, stopTaken, afterStop, loopPc, loopMsg, lastState,
                 scheduled, uiState, progress, drawn>>
  /\ GuiStep

\* Variant of updateState's read that takes the state of the message that
\* scheduled the redraw.
updateStateCaptured(ls, tag) == tag

\* updateState: state := g.lastState
updateState(ls, tag) == ls

\* updateState: the read and g.lock.RUnlock()
UiReads ==
  /\ uiPc = "read"
  /\ uiState' = updateState(lastState, uiTag)
  /\ lock' = "free"
  /\ uiPc' = "draw"
  /\ UNCHANGED <<assigned, stateChan, sent, chanCap, actionLen, stopFired,
                 stopReady, stopTaken, afterStop, loopPc, loopMsg, lastState,
                 pending, scheduled, uiTag, progress, drawn>>
  /\ GuiStep

\* updateState: g.progress.Update(state)
UiDraws ==
  /\ uiPc = "draw"
  /\ progress' = uiState
  /\ drawn' = [n |-> drawn.n + 1, ordered |-> drawn.ordered /\ uiState >= progress]
  /\ uiPc' = "idle"
  /\ UNCHANGED <<assigned, stateChan, sent, chanCap, actionLen, stopFired,
                 stopReady, stopTaken, afterStop, loopPc, loopMsg, lock,
                 lastState, pending, scheduled, uiTag, uiState>>
  /\ GuiStep

\* A send on Gui.actionChan can proceed: the channel is not nil and has room
\* (for an unbuffered channel, PlayerTakesAction is the ready receiver).
SendReady == assigned /\ actionLen < chanCap

\* playerCtrl is called by a key binding on the main loop thread and reaches
\* g.actionChan <- action
UiPlayerCtrl ==
  /\ uiPc = "idle"
  /\ uiPc' = "send"
  /\ UNCHANGED <<assigned, stateChan, sent, chanCap, actionLen, stopFired,
                 stopReady, stopTaken, afterStop, loopPc, loopMsg, lock,
                 lastState, pending, scheduled, uiTag, uiState, progress, drawn>>
  /\ GuiStep

\* the send completes into the channel's buffer
UiSends ==
  /\ uiPc = "send"
  /\ SendReady
  /\ actionLen' = actionLen + 1
  /\ uiPc' = "idle"
  /\ UNCHANGED <<assigned, stateChan, sent, chanCap, stopFired, stopReady,
                 stopTaken, afterStop, loopPc, loopMsg, lock, lastState,
                 pending, scheduled, uiTag, uiState, progress, drawn>>
  /\ GuiStep

\* The player receives an action: from the buffer, or directly from the
\* sender waiting on an unbuffered channel.
PlayerTakesAction ==
  /\ assigned
  /\ \/ /\ actionLen > 0
        /\ actionLen' = actionLen - 1
        /\ uiPc' = uiPc
     \/ /\ actionLen = 0
        /\ chanCap = 0
        /\ uiPc = "send"
        /\ actionLen' = actionLen
        /\ uiPc' = "idle"
  /\ UNCHANGED <<assigned, stateChan, sent, chanCap, stopFired, stopReady,
                 stopTaken, afterStop, loopPc, loopMsg, lock, lastState,
                 pending, scheduled, uiTag, uiState, progress, drawn>>
  /\ GuiStep

LoopStep ==
  \/ LoopTakesStop
  \/ LoopReceives
  \/ LoopLocks
  \/ LoopStores
  \/ LoopUpdates

NextGui ==
  \/ AssignChannels
  \/ PlayerSends
  \/ StopFires
  \/ LoopTakesStop
  \/ LoopReceives
  \/ LoopLocks
  \/ LoopStores
  \/ LoopUpdates
  \/ UiStartsRedraw
  \/ UiReads
  \/ UiDraws
  \/ UiPlayerCtrl
  \/ UiSends
  \/ PlayerTakesAction

\* --------------------------------------------------------------- widgets
\* One AlbumList and one PlaylistView on their own, and the Gui under Show.
\* A cover or a song row is the record of what its constructor stores.

MaxRows == 2

MaxFrames == 5

Albums == {"a1", "a2"}

Songs == {"s1", "s2"}

NoRun == [frames |-> <<>>, mainLoop |-> "running", show |-> "running"]

SeqsUpTo(S, n) == UNION {[1 .. k -> S] : k \in 0 .. n}

NoWidgetOp ==
  [op |-> "none", key |-> "", idx |-> 0, calls |-> <<>>, panic |-> FALSE,
   ret |-> "nil", draws |-> <<>>]

WidgetOp(op) == [NoWidgetOp EXCEPT !.op = op]

\* NewAlbumCover
NewAlbumCover(index, album) == [album |-> album, index |-> index]

\* cview.NewDropDownOption and DropDownOption.SetSelectedFunc; sets counts the
\* calls of SetSelectedFunc on the option.
NewDropDownOption(label) == [label |-> label, selected |-> Nil, sets |-> 0]

SetSelectedFunc(opt, fn) ==
  [opt EXCEPT !.selected = fn, !.sets = opt.sets + 1]

\* A construction in which every option gets the handler written next to it.
NewAlbumListOwnHandlers(context) ==
  LET mixOpts == SetSelectedFunc(NewDropDownOption("Instant mix"),
                                 "InstantMix")
      similarOpts == SetSelectedFunc(NewDropDownOption("Show similar"),
                                     "showSimilar")
      browserMix == SetSelectedFunc(NewDropDownOption("Open in browser"),
                                    "OpenInBrowser")
  IN [list |-> <<>>, albumCovers |-> <<>>, selected |-> 0,
      pagingEnabled |-> TRUE, similarEnabled |-> TRUE, artistMode |-> FALSE,
      pageOffset |-> 0, similarFunc |-> Nil, context |-> context,
      options |-> IF context THEN <<mixOpts, similarOpts, browserMix>>
                  ELSE <<>>]

\* NewAlbumList: the three handlers are all set on mixOpts, one after the
\* other; similarOpts and browserMix are added as they were created.
NewAlbumList(context) ==
  LET mixOpts0 == NewDropDownOption("Instant mix")
      mixOpts1 == SetSelectedFunc(mixOpts0, "InstantMix")
      similarOpts == NewDropDownOption("Show similar")
      mixOpts2 == SetSelectedFunc(mixOpts1, "showSimilar")
      browserMix == NewDropDownOption("Open in browser")
      mixOpts3 == SetSelectedFunc(mixOpts2, "OpenInBrowser")
  IN [list |-> <<>>, albumCovers |-> <<>>, selected |-> 0,
      pagingEnabled |-> TRUE, similarEnabled |-> TRUE, artistMode |-> FALSE,
      pageOffset |-> 0, similarFunc |-> Nil, context |-> context,
      options |-> IF context THEN <<mixOpts3, similarOpts, browserMix>>
                  ELSE <<>>]

\* AlbumList.AddAlbum without the append to albumCovers.
AddAlbumListOnly(a, c) == [a EXCEPT !.list = Append(a.list, c)]

\* AlbumList.AddAlbum
AddAlbum(a, c) ==
  [a EXCEPT !.list = Append(a.list, c),
            !.albumCovers = Append(a.albumCovers, c)]

\* AlbumList.Clear (ScrollList.Clear also resets the selection)
ClearAlbums(a) ==
  [a EXCEPT !.list = <<>>, !.selected = 0, !.albumCovers = <<>>]

\* AlbumList.SetAlbums
SetAlbums(a, albums) ==
  LET offset == IF a.pagingEnabled THEN a.pageOffset ELSE 0
      covers == [i \in 1 .. Len(albums) |->
                   NewAlbumCover(offset + i, albums[i])]
  IN [a EXCEPT !.list = covers, !.selected = 0, !.albumCovers = covers]

\* What the function set on a drop-down option does when it runs.
optionHandler(a, fn) ==
  CASE fn = "InstantMix" -> <<"InstantMix">>
    [] fn = "showSimilar" ->
         IF a.similarEnabled /\ a.similarFunc # Nil
         THEN <<a.similarFunc>> ELSE <<>>
    [] fn = "OpenInBrowser" -> <<"OpenInBrowser">>
    [] OTHER -> <<>>

\* newAlbumSong
newAlbumSong(song, index) == [song |-> song, index |-> index]

\* NewPlaylistView
NewPlaylistView(context) ==
  [list |-> <<>>, songs |-> <<>>, selected |-> 0, playlist |-> <<>>,
   listFocused |-> FALSE, prevBtnFocus |-> FALSE, listFocus |-> FALSE,
   context |-> context]

\* PlaylistView.SetPlaylist
SetPlaylist(p, playlist) ==
  LET rows == [i \in 1 .. Len(playlist) |-> newAlbumSong(playlist[i], i)]
  IN [p EXCEPT !.list = rows, !.selected = 0, !.playlist = playlist,
               !.songs = rows]

Keys == {"Up", "CtrlK", "Down", "CtrlJ", "Enter", "AltEnter", "Rune"}

\* PlaylistView.playSong: indexing songs out of range panics.
playSong(p, index) ==
  IF index < Len(p.songs)
  THEN [calls |-> <<[fn |-> "playSong", song |-> p.songs[index + 1].song]>>,
        panic |-> FALSE]
  ELSE [calls |-> <<>>, panic |-> TRUE]

\* ScrollList.InputHandler: the arrow keys move the selection inside the list.
listInputHandler(p, key) ==
  CASE key \in {"Down", "CtrlJ"} /\ p.selected + 1 < Len(p.list) ->
         [p EXCEPT !.selected = p.selected + 1]
    [] key \in {"Up", "CtrlK"} /\ p.selected > 0 ->
         [p EXCEPT !.selected = p.selected - 1]
    [] OTHER -> p

\* PlaylistView.InputHandler leaving the list on Up at any row.
PlaylistInputHandlerAnyRow(p, key) ==
  IF p.listFocused
  THEN IF key \in {"Up", "CtrlK"}
       THEN [p |-> [p EXCEPT !.listFocused = FALSE, !.prevBtnFocus = TRUE,
                             !.listFocus = FALSE],
             calls |-> <<>>, panic |-> FALSE]
       ELSE [p |-> listInputHandler(p, key), calls |-> <<>>, panic |-> FALSE]
  ELSE [p |-> p, calls |-> <<>>, panic |-> FALSE]

\* PlaylistView.InputHandler
PlaylistInputHandler(p, key) ==
  IF p.listFocused
  THEN LET index == p.selected
       IN IF index = 0 /\ key \in {"Up", "CtrlK"}
          THEN [p |-> [p EXCEPT !.listFocused = FALSE, !.prevBtnFocus = TRUE,
                                !.listFocus = FALSE],
                calls |-> <<>>, panic |-> FALSE]
          ELSE IF key = "Enter"
          THEN [p |-> p, calls |-> playSong(p, index).calls,
                panic |-> playSong(p, index).panic]
          ELSE [p |-> listInputHandler(p, key), calls |-> <<>>,
                panic |-> FALSE]
  ELSE IF key \in {"Down", "CtrlJ"}
       THEN [p |-> [p EXCEPT !.listFocused = TRUE, !.listFocus = TRUE],
             calls |-> <<>>, panic |-> FALSE]
       ELSE [p |-> p, calls |-> <<>>, panic |-> FALSE]

\* PlaylistView.playAll
playAll(p) ==
  [calls |-> <<[fn |-> "playSongs",
                songs |-> [i \in 1 .. Len(p.songs) |-> p.songs[i].song]]>>,
   panic |-> FALSE]

\* PlaylistView.playFromSelected starting at the row after the selected one.
playFromSelectedSkipsRow(p) ==
  LET index == p.selected + 1
  IN IF index <= Len(p.songs)
     THEN [calls |-> <<[fn |-> "playSongs",
                        songs |-> [i \in 1 .. Len(p.songs) - index |->
                                     p.songs[index + i].song]]>>,
           panic |-> FALSE]
     ELSE [calls |-> <<>>, panic |-> TRUE]

\* PlaylistView.playFromSelected: make with a negative length and slicing
\* past the end panic.
playFromSelected(p) ==
  LET index == p.selected
  IN IF index <= Len(p.songs)
     THEN [calls |-> <<[fn |-> "playSongs",
                        songs |-> [i \in 1 .. Len(p.songs) - index |->
                                     p.songs[index + i].song]]>>,
           panic |-> FALSE]
     ELSE [calls |-> <<>>, panic |-> TRUE]

ContextItems == {"Play all from here", "View album", "View artist", "Instant mix"}

\* The functions given to p.list.AddContextItem, called with index.
contextItem(p, item, index) ==
  LET selected == p.selected
      onSong(fn) == IF selected < Len(p.songs)
                    THEN [calls |-> <<[fn |-> fn,
                                       song |-> p.songs[selected + 1].song]>>,
                          panic |-> FALSE]
                    ELSE [calls |-> <<>>, panic |-> TRUE]
  IN CASE item = "Play all from here" -> playFromSelected(p)
       [] item = "View album" -> onSong("ViewSongAlbum")
       [] item = "View artist" ->
            IF index < Len(p.songs) /\ p.context
            THEN onSong("ViewSongArtist")
            ELSE [calls |-> <<>>, panic |-> FALSE]
       [] item = "Instant mix" ->
            IF index < Len(p.songs) /\ p.context
            THEN onSong("InstantMix")
            ELSE [calls |-> <<>>, panic |-> FALSE]

DrawErrors == {"nil", "ErrUnknownView", "other"}

\* Gui.Show: log.Panicln on an error that is not the quit signal.
Show(err) ==
  IF err # "nil" /\ err # "ErrQuit" THEN "panic" ELSE "nil"

\* Gui.layout giving up at the first draw that reports anything.
layoutStopsAtFirst(e1, e2) ==
  IF e1 # "nil"
  THEN [ret |-> e1, draws |-> <<"progress">>]
  ELSE [ret |-> IF e2 = "ErrUnknownView" THEN "nil" ELSE e2,
        draws |-> <<"progress", "artists">>]

\* Gui.layout: err of the first draw is overwritten by the second draw.
layout(e1, e2) ==
  LET err1 == IF e1 = "ErrUnknownView" THEN "nil" ELSE e1
      err2 == IF e2 = "ErrUnknownView" THEN "nil" ELSE e2
  IN [ret |-> err2, draws |-> <<"progress", "artists">>]

WidgetStep == UNCHANGED <<wvars, gvars, ovars, guivars>>

AlbumListClear ==
  /\ alist' = ClearAlbums(alist)
  /\ wobs' = WidgetOp("Clear")
  /\ UNCHANGED <<pview, guiRun>>
  /\ WidgetStep

AlbumListAddAlbum ==
  \E album \in Albums :
    /\ Len(alist.list) < MaxRows
    /\ alist' = AddAlbum(alist, NewAlbumCover(Len(alist.list) + 1, album))
    /\ wobs' = WidgetOp("AddAlbum")
    /\ UNCHANGED <<pview, guiRun>>
    /\ WidgetStep

AlbumListSetAlbums ==
  \E albums \in SeqsUpTo(Albums, MaxRows) :
    /\ alist' = SetAlbums(alist, albums)
    /\ wobs' = WidgetOp("SetAlbums")
    /\ UNCHANGED <<pview, guiRun>>
    /\ WidgetStep

\* The user picks option i of the drop-down: its selected-function runs, if
\* it has one.
AlbumListSelectOption ==
  \E i \in 1 .. Len(alist.options) :
    /\ wobs' = [WidgetOp("option") EXCEPT
                  !.idx = i,
                  !.calls = optionHandler(alist, alist.options[i].selected)]
    /\ UNCHANGED <<alist, pview, guiRun>>
    /\ WidgetStep

PlaylistSetPlaylist ==
  \E playlist \in SeqsUpTo(Songs, MaxRows) :
    /\ pview' = SetPlaylist(pview, playlist)
    /\ wobs' = WidgetOp("SetPlaylist")
    /\ UNCHANGED <<alist, guiRun>>
    /\ WidgetStep

PlaylistKey ==
  \E key \in Keys :
    LET r == PlaylistInputHandler(pview, key)
    IN /\ pview' = r.p
       /\ wobs' = [WidgetOp("key") EXCEPT !.key = key, !.calls = r.calls,
                                          !.panic = r.panic]
       /\ UNCHANGED <<alist, guiRun>>
       /\ WidgetStep

\* The user picks an item of the list's context menu; the list passes an
\* index of its own choosing to the item's function.
PlaylistContextItem ==
  \E item \in ContextItems, index \in 0 .. MaxRows :
    LET r == contextItem(pview, item, index)
    IN /\ pview.context
       /\ wobs' = [WidgetOp("context") EXCEPT !.key = item, !.idx = index,
                                              !.calls = r.calls,
                                              !.panic = r.panic]
       /\ UNCHANGED <<alist, pview, guiRun>>
       /\ WidgetStep

\* The 'Play all' button
PlaylistPlayAll ==
  /\ wobs' = [WidgetOp("playAll") EXCEPT !.calls = playAll(pview).calls,
                                         !.panic = playAll(pview).panic]
  /\ UNCHANGED <<alist, pview, guiRun>>
  /\ WidgetStep

\* gocui's MainLoop lays the views out once per frame by calling the manager
\* function (Gui.layout, set in NewGui) and returns the first error it gets.
GuiLayout ==
  \E e1 \in DrawErrors, e2 \in DrawErrors :
    LET r == layout(e1, e2)
    IN /\ guiRun.mainLoop = "running"
       /\ Len(guiRun.frames) < MaxFrames
       /\ guiRun' = [guiRun EXCEPT
                       !.frames = Append(guiRun.frames, r.ret),
                       !.mainLoop = IF r.ret = "nil" THEN "running" ELSE r.ret]
       /\ wobs' = [WidgetOp("layout") EXCEPT !.calls = <<e1, e2>>,
                                             !.ret = r.ret, !.draws = r.draws]
       /\ UNCHANGED <<alist, pview>>
       /\ WidgetStep

\* Ctrl-C: the key binding of NewGui returns ErrQuit, and so does MainLoop.
GuiQuit ==
  /\ guiRun.mainLoop = "running"
  /\ guiRun' = [guiRun EXCEPT !.mainLoop = "ErrQuit"]
  /\ UNCHANGED <<alist, pview, wobs>>
  /\ WidgetStep

\* Gui.Show after MainLoop has returned.
GuiShow ==
  /\ guiRun.mainLoop # "running"
  /\ guiRun.show = "running"
  /\ guiRun' = [guiRun EXCEPT !.show = Show(guiRun.mainLoop)]
  /\ UNCHANGED <<alist, pview, wobs>>
  /\ WidgetStep

\* ------------------------------------------------------------------ spec
\* NewWindow
NewWindow ==
  /\ appState = "running"
  /\ hasModal = FALSE
  /\ modal = Nil
  /\ lastFocus = Nil
  /\ focus = "mediaNav"
  /\ hasFocus = [p \in Prims |-> p = "mediaNav"]
  /\ visible = [m \in Modals |-> FALSE]
  /\ overlay = Nil
  /\ gridView = Nil
  /\ mediaView = Nil
  /\ mediaViewSelected = FALSE
  /\ last = [s \in Screens |-> Nil]
  /\ view = InitView
  /\ navCount = [m \in MediaSelect |-> Nil]
  /\ msgText = ""
  /\ helpStats = FALSE
  /\ songsShowPage = "selectSongs"
  /\ results = <<>>
  /\ updates = <<>>
  /\ events = 0
  /\ lastOp = [ev |-> "NewWindow", arg |-> "", ok |-> TRUE, n |-> 0,
               hadModal |-> FALSE]
  /\ shown = Nil
  /\ closeObs = NoClose
  /\ drillStack = NoDrill
  /\ backObs = NoBack
  /\ scen = "start"
  /\ enq = NoCallback
  /\ callObs = NoKey
  /\ inflight = NoFlight
  /\ applyObs = NoApply
  /\ alist = [NewAlbumList(TRUE) EXCEPT !.similarFunc = "showSimilarArtists"]
  /\ pview = NewPlaylistView(TRUE)
  /\ wobs = NoWidgetOp
  /\ guiRun = NoRun

Next ==
  \/ KeyQuit
  \/ KeyHelp
  \/ KeySearch
  \/ KeyQueue
  \/ KeyHistory
  \/ KeyTab
  \/ HelpEscape
  \/ MessageDone
  \/ SelectMedia
  \/ SelectArtist
  \/ SelectAlbum
  \/ SelectPlaylist
  \/ SelectGenre
  \/ ShowSimilarAlbums
  \/ Back
  \/ SelectAlbumPage
  \/ SelectArtistPage
  \/ SelectSongsPage
  \/ SelectGenrePage

Init == NewWindow /\ NewGui /\ budget = MaxEvents

Spec == Init /\ [][Next]_vars

\* Runs in which the user only navigates: categories, list rows, the similar
\* function and Back buttons.
InitNav == NewWindow /\ NewGui /\ budget = MaxNavEvents

NextNav ==
  \/ SelectMedia
  \/ SelectArtist
  \/ SelectAlbum
  \/ SelectPlaylist
  \/ SelectGenre
  \/ ShowSimilarAlbums
  \/ MessageDone
  \/ Back

SpecNav == InitNav /\ [][NextNav]_vars

\* Runs in which, besides the events, a caller holding the Window invokes
\* closeModal and showSimilarArtists directly, in any state.
CallCloseModal ==
  \E m \in Modals :
    /\ Running
    /\ Step("closeModal", m, NoFetch, TRUE, m, closeModal(W, m))

CallShowSimilarArtists ==
  /\ Running
  /\ \E f \in Fetches :
       Step("showSimilarArtists", "albumList", f, f.ok, Nil,
            showSimilarArtists(W, view["albumList"].artist, f))

NextCalls ==
  \/ KeyQuit
  \/ KeyHelp
  \/ KeySearch
  \/ KeyQueue
  \/ KeyHistory
  \/ KeyTab
  \/ HelpEscape
  \/ MessageDone
  \/ SelectMedia
  \/ SelectArtist
  \/ SelectAlbum
  \/ ShowSimilarAlbums
  \/ Back
  \/ CallCloseModal
  \/ CallShowSimilarArtists

InitCalls == NewWindow /\ NewGui /\ budget = MaxCallEvents

SpecCalls == InitCalls /\ [][NextCalls]_vars

\* Runs in which only keys are pressed: playback, navigation bar, Tab, Escape.
InitKeys == NewWindow /\ NewGui /\ budget = MaxKeyEvents

NextKeys ==
  \/ KeyPlayback
  \/ KeyQuit
  \/ KeyHelp
  \/ KeySearch
  \/ KeyQueue
  \/ KeyHistory
  \/ KeyTab
  \/ HelpEscape

SpecKeys == InitKeys /\ [][NextKeys]_vars

\* Runs in which the user opens the search screen and submits queries.
InitSearch == NewWindow /\ NewGui /\ budget = MaxSearchEvents

NextSearch ==
  \/ KeySearch
  \/ KeyQueue
  \/ KeyTab
  \/ SearchSubmit

SpecSearch == InitSearch /\ [][NextSearch]_vars

\* Runs in which the queue and the history change while the user moves
\* between the queue and history screens.
InitAsync == NewWindow /\ NewGui /\ budget = MaxAsyncEvents

NextAsync ==
  \/ KeyQueue
  \/ KeyHistory
  \/ KeyTab
  \/ QueueChangedCb
  \/ HistoryChangedCb
  \/ RunUpdate

SpecAsync == InitAsync /\ [][NextAsync]_vars

\* Runs in which a category or artist selection is followed from its
\* catalogue call to the call's return, with keys and Back pressed meanwhile.
InitFetch == NewWindow /\ NewGui /\ budget = MaxFetchEvents

NextFetch ==
  \/ BeginSelectMedia
  \/ BeginSelectArtist
  \/ CompleteFetch
  \/ KeySearch
  \/ KeyQueue
  \/ KeyTab
  \/ Back

SpecFetch == InitFetch /\ [][NextFetch]_vars

\* Runs in which categories are selected and pages of album lists chosen.
InitPages == NewWindow /\ NewGui /\ budget = MaxPageEvents

NextPages ==
  \/ SelectMedia
  \/ KeyTab
  \/ SelectPage

SpecPages == InitPages /\ [][NextPages]_vars

\* The search results screen and the screens opened from it.
InitResults == NewWindow /\ NewGui /\ budget = MaxResultEvents

NextResults ==
  \/ KeySearch
  \/ KeyTab
  \/ ShowSearchResults
  \/ Back

SpecResults == InitResults /\ [][NextResults]_vars

\* An AlbumList and a PlaylistView filled and cleared by their callers.
InitLists == NewWindow /\ NewGui /\ budget = 0

NextLists ==
  \/ AlbumListClear
  \/ AlbumListAddAlbum
  \/ AlbumListSetAlbums
  \/ AlbumListSelectOption
  \/ PlaylistSetPlaylist

SpecLists == InitLists /\ [][NextLists]_vars

\* A PlaylistView receiving playlists and keys.
InitPlaylist == NewWindow /\ NewGui /\ budget = 0

NextPlaylist ==
  \/ PlaylistSetPlaylist
  \/ PlaylistKey
  \/ PlaylistContextItem
  \/ PlaylistPlayAll

SpecPlaylist == InitPlaylist /\ [][NextPlaylist]_vars

\* Gui.Show: the main loop lays out frames until a draw fails or the user quits.
InitShow == NewWindow /\ NewGui /\ budget = 0

NextShow ==
  \/ GuiLayout
  \/ GuiQuit
  \/ GuiShow

SpecShow == InitShow /\ [][NextShow]_vars

\* The Gui with its loop, the main loop thread and the player.
InitGui == NewWindow /\ NewGui /\ budget = 0

SpecGui == InitGui /\ [][NextGui]_vars

\* The same, with the loop goroutine scheduled whenever it can run.
SpecGuiFair == InitGui /\ [][NextGui]_vars /\ WF_vars(LoopStep)

\* ------------------------------------------------------------------ properties
\* The last event reached a call of showModal.
ShowModalCalled ==
  \/ lastOp.ev = "key" /\ lastOp.arg = "Help"
  \/ lastOp.ev \in {"showSimilarAlbums", "showSimilarArtists"} /\ lastOp.ok /\ lastOp.n = 0

\* The last event was a call of closeModal and nothing else.
CloseModalCalled == lastOp.ev \in {"closeModal", "done"}

\* C1: a showModal call made while a modal is open (for the open modal or for
\* another one) leaves hasModal true, w.modal the same modal, and lastFocus,
\* the input focus and the layout's overlay and content item unchanged.
C1_ShowWhileOpenIsNoOp ==
  [][(hasModal /\ ShowModalCalled')
       => /\ hasModal'
          /\ UNCHANGED <<modal, lastFocus, focus, overlay, gridView>>]_vars

\* C1 witness: Help was pressed while the message modal was open.
C1_Witness ==
  /\ ShowModalCalled
  /\ lastOp.hadModal
  /\ lastOp.arg = "Help"
  /\ modal = "message"

\* C2: a closeModal call made while no modal is open changes nothing of the
\* Window: hasModal stays false, w.modal nil, lastFocus, focus and layout are
\* unchanged and the modal passed is neither blurred nor hidden.
C2_CloseWhileClosedIsNoOp ==
  [][(~hasModal /\ CloseModalCalled') => UNCHANGED wvars]_vars

\* C2 witness: closeModal was called on a modal that had the focus flag set
\* while no modal was open.
C2_Witness ==
  /\ lastOp.ev = "closeModal"
  /\ ~lastOp.hadModal
  /\ ~hasModal
  /\ modal = Nil
  /\ events > 1

\* C3: while the program runs, hasModal is true exactly when w.modal is not
\* nil, and then w.modal is the modal overlaid in the layout.
C3_ModalConsistent ==
  appState # "panicked" =>
    /\ hasModal <=> modal # Nil
    /\ hasModal => overlay = modal
    /\ ~hasModal => overlay = Nil

\* C3 witness: a navigation key was handled under the open message modal.
C3_Witness ==
  /\ hasModal
  /\ modal = "message"
  /\ overlay = "message"
  /\ lastOp.ev = "key"
  /\ lastOp.arg = "Queue"

\* C4 (as claimed): right after a closeModal that closes the modal, the input
\* focus is the primitive that had it just before the show, and lastFocus is nil.
C4_CloseRestoresShowFocus ==
  closeObs.on => closeObs.got = closeObs.want /\ closeObs.lastFocus = Nil

\* Following the previous links from s ends within k steps.
RECURSIVE ChainEnds(_, _)
ChainEnds(s, k) ==
  IF s = Nil THEN TRUE
  ELSE IF k = 0 THEN FALSE
  ELSE ChainEnds(last[s], k - 1)

\* C5 (as claimed): from every screen, following the previous links terminates.
C5_NoPreviousCycle ==
  \A s \in Screens : ChainEnds(s, Cardinality(Screens))

\* C6 (as claimed): after n drill-downs, each to a different screen, the k-th
\* of the backs that follow makes current the screen that was current before
\* the k-th last drill-down; with k = n that is the screen the sequence began on.
C6_DrillThenBackReturns ==
  backObs.on => backObs.got = backObs.want

\* C7: from the initial Window, with all fetches succeeding, Artists, then an
\* artist, then an album make the album view current with previous = album
\* list, whose previous = artist list; the first Back makes the album list
\* current, the second the artist list, and the third changes nothing.
C7_ArtistsScenario ==
  /\ scen = "artists" => mediaView = "artistList" /\ last["artistList"] = Nil
  /\ scen = "albums" => mediaView = "albumList" /\ last["albumList"] = "artistList"
  /\ scen = "album" =>
       /\ mediaView = "album"
       /\ last["album"] = "albumList"
       /\ last["albumList"] = "artistList"
  /\ scen = "back1" => mediaView = "albumList"
  /\ scen = "back2" => mediaView = "artistList"
  /\ scen = "back3" => mediaView = "artistList" /\ focus = "artistList"

\* C7 witness: the scenario ran to its third Back.
C7_Witness == scen = "back3" /\ events = 6

\* C8 (as claimed): selecting a category while another screen is current makes
\* the target current without changing the target's previous link.
C8_LateralKeepsPrevious ==
  [][(lastOp'.ev = "selectMedia" /\ mediaView # Nil /\ mediaView' # mediaView)
       => last'[mediaView'] = last[mediaView']]_vars

FetchHandlers ==
  {"selectMedia", "selectSongs", "showRecentSongsPage", "showArtistPage",
   "showAlbumPage", "showGenrePage"}

\* C9 (as claimed): when the fetch of a category selection or of a page
\* selection fails, mediaView, every previous link and every screen's
\* contents, title, paging and flags are unchanged.
C9_FetchErrorAborts ==
  [][(lastOp'.ev \in FetchHandlers /\ ~lastOp'.ok)
       => UNCHANGED <<mediaView, last, view>>]_vars

ItemDrills == {"selectArtist", "selectAlbum", "selectPlaylist", "selectGenre"}

DrillTarget(ev) ==
  CASE ev = "selectArtist" -> "albumList"
    [] ev = "selectAlbum" -> "album"
    [] ev = "selectPlaylist" -> "playlist"
    [] ev = "selectGenre" -> "albumList"

DrillFetch(ev) ==
  CASE ev = "selectArtist" -> "GetArtistAlbums"
    [] ev = "selectAlbum" -> "GetAlbumSongs"
    [] ev = "selectPlaylist" -> "GetPlaylistSongs"
    [] ev = "selectGenre" -> "GetGenreAlbums"

\* C10: a drill-down whose item fetch succeeds makes its target screen
\* current, filled from that fetch, with previous = the screen current before;
\* one whose item fetch fails leaves mediaView, all previous links and all
\* screen contents unchanged.
C10_DrillFetchThenPush ==
  [][lastOp'.ev \in ItemDrills
       => IF lastOp'.ok
          THEN /\ mediaView' = DrillTarget(lastOp'.ev)
               /\ last'[mediaView'] = mediaView
               /\ view'[mediaView'].src = DrillFetch(lastOp'.ev)
               /\ view'[mediaView'].n = lastOp'.n
          ELSE UNCHANGED <<mediaView, last, view>>]_vars

\* C10 witness: an album was opened from the genre's album list.
C10_Witness ==
  /\ lastOp.ev = "selectAlbum"
  /\ lastOp.ok
  /\ mediaView = "album"
  /\ last["album"] = "albumList"
  /\ view["albumList"].src = "GetGenreAlbums"

\* The player and queue calls bound to each playback key.
BoundCalls ==
  [key \in PlaybackKeys |->
     CASE key = "Stop" -> <<"StopMedia", "ClearQueue">>
       [] key = "PlayPause" -> <<"PlayPause">>
       [] key = "VolumeDown" -> <<"SetVolume-5">>
       [] key = "VolumeUp" -> <<"SetVolume+5">>
       [] key = "Next" -> <<"Next">>
       [] key = "Previous" -> <<"Previous">>
       [] key = "Forward" -> <<"Seek+3000">>
       [] key = "Backward" -> <<"Seek-3000">>]

\* C11: in every Window state a playback key makes the player calls bound to
\* it, only mediaCtrl runs (not navBarCtrl, not moveCtrl), the event is
\* consumed, and the Window is left as it was.
C11_PlaybackKeysFirst ==
  [][(lastOp'.ev = "key" /\ lastOp'.arg \in PlaybackKeys)
       => /\ [i \in 1..Len(callObs'.calls) |-> callObs'.calls[i].fn]
               = BoundCalls[lastOp'.arg]
          /\ callObs'.ran = <<"mediaCtrl">>
          /\ callObs'.out = Nil
          /\ UNCHANGED wvars]_vars

\* C11 witness: a seek key was handled while the help modal was open over a
\* content screen.
C11_Witness ==
  /\ lastOp.ev = "key"
  /\ lastOp.arg = "Backward"
  /\ callObs.calls # <<>>
  /\ hasModal
  /\ modal = "help"
  /\ mediaView # Nil

\* Tab was the event handled last.
TabHandled == lastOp.ev = "key" /\ lastOp.arg = "Tab"

\* C12 (as claimed): with no modal open and a content screen current, Tab
\* moves the focus from the content screen to the navigation bar, and from
\* the navigation bar to the content screen, which is then focused.
C12_TabToggles ==
  [][(TabHandled' /\ ~hasModal /\ mediaView # Nil)
       => /\ focus = mediaView => focus' = "mediaNav"
          /\ focus = "mediaNav" => focus' = mediaView /\ hasFocus'[mediaView]]_vars

\* C13 (as claimed): Tab handled with a modal open closes it first: after the
\* event no modal is open, the overlay is removed, and the focus is on the
\* navigation bar or on the current content screen.
C13_TabClosesModalFirst ==
  [][(TabHandled' /\ hasModal)
       => /\ ~hasModal'
          /\ modal' = Nil
          /\ overlay' = Nil
          /\ focus' \notin Modals
          /\ \/ focus' = "mediaNav"
             \/ mediaView' # Nil /\ focus' = mediaView']_vars

\* The result lists a search must leave, given what the Search calls returned:
\* one list per type, in configuration order, for the types that succeeded
\* with at least one item.
RECURSIVE FoundFrom(_, _)
FoundFrom(ret, i) ==
  IF i > Len(ret) THEN <<>>
  ELSE (IF ret[i].ok /\ ret[i].n > 0
        THEN <<[type |-> SearchTypes[i], n |-> ret[i].n]>>
        ELSE <<>>) \o FoundFrom(ret, i + 1)

\* C14: searchCb makes exactly one Search call per configured type, in
\* configuration order, and afterwards the results screen holds exactly the
\* non-empty result lists of the types whose Search succeeded, whatever it
\* held before and whichever types failed.
C14_SearchPerType ==
  [][lastOp'.ev = "searchCb"
       => /\ Len(callObs'.calls) = Len(SearchTypes)
          /\ \A i \in 1..Len(SearchTypes) :
               /\ callObs'.calls[i].fn = "Search"
               /\ callObs'.calls[i].type = SearchTypes[i]
          /\ results' = FoundFrom(callObs'.ret, 1)]_vars

\* C14 witness: a second query whose first type failed and whose second type
\* returned 3 items replaced the results of an earlier query.
C14_Witness ==
  /\ lastOp.ev = "searchCb"
  /\ events = 3
  /\ ~callObs.ret[1].ok
  /\ callObs.ret[2] = [ok |-> TRUE, n |-> 3]
  /\ results = <<[type |-> SearchTypes[2], n |-> 3]>>

\* C15 (as claimed): once the loop has taken the termination signal it
\* eventually returns, and it receives no state message after taking it.
C15_LoopExitsOnStop ==
  /\ stopTaken ~> (loopPc = "returned")
  /\ [](afterStop = 0)

\* Every redraw handed to the main loop has run and the loop waits at its
\* select with nothing left to receive.
Settled ==
  /\ pending = {}
  /\ uiPc \in {"idle", "send"}
  /\ loopPc = "select"
  /\ stateChan = <<>>

\* C16: every message received replaces lastState under the write lock,
\* which is released before the redraw is scheduled, and schedules exactly
\* one redraw; the redraw draws without holding the read lock; whatever the
\* order in which the redraws run, the state shown never goes back to an
\* older one, and once all have run the status bar shows the last message.
C16_LastStateShown ==
  /\ lock = "W" <=> loopPc = "store"
  /\ lock = "R" <=> uiPc = "read"
  /\ loopPc = "select" => /\ scheduled = sent - Len(stateChan)
                          /\ lastState = scheduled
  /\ scheduled = drawn.n + Cardinality(pending)
                  + (IF uiPc \in {"read", "draw"} THEN 1 ELSE 0)
  /\ drawn.ordered
  /\ (Settled /\ sent > 0) => progress = sent

\* C16 witness: three messages were received and their redraws ran, the one
\* scheduled by the first message last, and the status bar shows the third.
C16_Witness ==
  /\ Settled
  /\ sent = 3
  /\ drawn.n = 3
  /\ uiTag = 1
  /\ progress = 3

\* C18 (as claimed): the main loop thread never waits in playerCtrl: whenever
\* it is at the send on actionChan, the send can proceed.
C18_PlayerCtrlNeverBlocks == uiPc = "send" => SendReady

\* C17: the queue-changed and history-changed callbacks touch no screen on
\* the thread that calls them: they only queue one function, and every
\* screen access (GetSelectedIndex, SetSongs, SetSelected) is made when the
\* event loop runs that function.
C17_CallbacksOnlyEnqueue ==
  [][/\ lastOp'.ev \in {"queueChanged", "historyChanged"}
          => /\ callObs'.calls = <<>>
             /\ view' = view
             /\ updates' = Append(updates, [screen |-> lastOp'.arg, n |-> updates'[Len(updates')].n])
     /\ lastOp'.ev = "update"
          => /\ callObs'.calls # <<>>
             /\ \A i \in 1..Len(callObs'.calls) : callObs'.calls[i].on = "ui"
             /\ view'[lastOp'.arg].n = Head(updates).n]_vars

\* C17 witness: the event loop ran the function queued by a queue change
\* while the queue screen was current.
C17_Witness ==
  /\ lastOp.ev = "update"
  /\ lastOp.arg = "queue"
  /\ mediaView = "queue"
  /\ view["queue"].n = 1
  /\ events >= 3

\* C19 (as claimed): a catalogue call made for a navigation never runs on
\* the UI thread, so the event loop is free while the call is under way.
C19_FetchesOffUiThread == inflight # NoFlight => inflight.on # "ui" /\ UiFree

\* C20: a fetch result that populates a screen and makes it current is never
\* a stale one: no navigation request was accepted between the handler's
\* catalogue call and the population.
C20_NoStaleResultApplied == applyObs.on => ~applyObs.stale

\* C20 witness: an artist's albums were fetched, put in the album list and
\* the album list made current, the selection followed call by call.
C20_Witness ==
  /\ applyObs.on
  /\ lastOp.ev = "selectArtist"
  /\ lastOp.ok
  /\ mediaView = "albumList"
  /\ last["albumList"] = "artistList"

\* C21 (as claimed): every page selection on an album list that shows its
\* page selector makes one catalogue call for the selected page, and when
\* that call succeeds the list holds its result.
C21_PageSelectionFetches ==
  [][lastOp'.ev = "selectPage"
       => /\ Len(callObs'.calls) = 1
          /\ callObs'.calls[1].page = view'[lastOp'.arg].page
          /\ lastOp'.ok => /\ view'[lastOp'.arg].src = callObs'.calls[1].fn
                           /\ view'[lastOp'.arg].n = lastOp'.n]_vars

\* C22: the backing slice of an AlbumList and of a PlaylistView always has the
\* length of the visual list and holds at each index the object shown at that
\* row; after Clear both are empty.
C22_BackingMirrorsList ==
  /\ Len(alist.albumCovers) = Len(alist.list)
  /\ \A i \in 1 .. Len(alist.list) : alist.albumCovers[i] = alist.list[i]
  /\ Len(pview.songs) = Len(pview.list)
  /\ \A i \in 1 .. Len(pview.list) : pview.songs[i] = pview.list[i]
  /\ wobs.op = "Clear" => alist.list = <<>> /\ alist.albumCovers = <<>>

\* A list built by two AddAlbum calls with different albums, next to a playlist
\* of two songs.
C22_Witness ==
  /\ wobs.op = "AddAlbum"
  /\ Len(alist.albumCovers) >= 2
  /\ alist.albumCovers[1].album # alist.albumCovers[2].album
  /\ Len(pview.songs) >= 2

\* C23: in a PlaylistView, listFocused goes from true to false exactly on Up or
\* Ctrl-K with the first row selected (the Back button gets the focus and the
\* list is blurred), and from false to true exactly on Down or Ctrl-J; any
\* other key leaves it as it is, and with listFocused false any other key
\* changes nothing and calls nothing.
C23_FocusFlagBoundaries ==
  [][wobs'.op = "key"
       => LET leaves == wobs'.key \in {"Up", "CtrlK"} /\ pview.selected = 0
              enters == wobs'.key \in {"Down", "CtrlJ"}
          IN /\ pview.listFocused
                  => IF leaves
                     THEN /\ ~pview'.listFocused
                          /\ pview'.prevBtnFocus
                          /\ ~pview'.listFocus
                          /\ pview'.selected = pview.selected
                     ELSE pview'.listFocused
             /\ ~pview.listFocused
                  => IF enters
                     THEN pview'.listFocused /\ pview'.listFocus
                     ELSE pview' = pview /\ wobs'.calls = <<>>]_vars

\* Up on the first row of a two-row playlist whose list had the focus has moved
\* the focus to the Back button.
C23_Witness ==
  /\ wobs.op = "key"
  /\ wobs.key \in {"Up", "CtrlK"}
  /\ ~pview.listFocused
  /\ pview.prevBtnFocus
  /\ Len(pview.list) >= 2

\* C24 (as claimed): Gui.Show never ends in a panic, whatever MainLoop returns.
C24_ShowNeverPanics == guiRun.show # "panic"

\* C25: when each of the two draws of a frame succeeds or reports unknown-view,
\* Gui.layout returns no error and has drawn the status bar and then the
\* artists view.
C25_UnknownViewIsBenign ==
  (wobs.op = "layout" /\ \A i \in 1 .. 2 : wobs.calls[i] # "other")
    => wobs.ret = "nil" /\ wobs.draws = <<"progress", "artists">>

\* A frame in which the status bar draw reported unknown-view, after an earlier
\* frame.
C25_Witness ==
  /\ wobs.op = "layout"
  /\ wobs.calls[1] = "ErrUnknownView"
  /\ wobs.calls[2] # "other"
  /\ Len(guiRun.frames) >= 2

\* C26 (as claimed): the album view is never current with the songs of one
\* album next to the artist of another album that was viewed before.
C26_NoForeignArtist ==
  ~ /\ mediaView = "album"
    /\ view["album"].src = "GetAlbumSongs"
    /\ view["album"].artist # NoItem
    /\ view["album"].artist # view["album"].about

\* C27 (as claimed): showSearchResults fills the screen of the item type with
\* exactly the results it was given and makes that screen current, with the
\* search results screen as its previous screen.
C27_ResultsShownAsGiven ==
  [][lastOp'.ev = "showSearchResults"
       => LET s == ResultScreen[lastOp'.arg]
          IN /\ lastOp'.n > 0 => view'[s].src = "results"
             /\ view'[s].n = lastOp'.n
             /\ mediaView' = s
             /\ last'[s] = "searchResultsTop"]_vars

\* C28: the functions queued by the queue and history callbacks run in the
\* order of the callbacks and none is lost, and each replaces the whole list:
\* a callback appends its function to the end of the update queue, the event
\* loop runs the oldest one and removes only that one, and once no function
\* for a screen is waiting the screen holds the songs of the last callback
\* for it.
C28_UpdatesInOrder ==
  [][/\ lastOp'.ev \in {"queueChanged", "historyChanged"}
          => updates' = Append(updates, [screen |-> lastOp'.arg,
                                         n |-> lastOp'.n])
     /\ lastOp'.ev = "update"
          => /\ updates' = Tail(updates)
             /\ view'[Head(updates).screen].n = Head(updates).n
     /\ \A s \in {"queue", "history"} :
          (enq'[s] # -1 /\ \A i \in 1 .. Len(updates') : updates'[i].screen # s)
            => view'[s].n = enq'[s]]_vars

\* Two queue changes with different songs were queued before either function
\* ran; the function of the first has just run and the queue screen holds its
\* songs, while the function of the second still waits.
C28_Witness ==
  /\ lastOp.ev = "update"
  /\ lastOp.arg = "queue"
  /\ Len(updates) = 1
  /\ updates[1].screen = "queue"
  /\ view["queue"].src = "QueueChanged"
  /\ view["queue"].n # updates[1].n
  /\ enq["queue"] = updates[1].n

\* C29: in an AlbumList built with a context, SetSelectedFunc was called three
\* times on the first drop-down option and never on the other two; the first
\* option opens the artist in the browser, the other two do nothing, and so no
\* option calls InstantMix or the similar function (showSimilarArtists).
C29_OnlyBrowserReachable ==
  /\ alist.context => /\ Len(alist.options) = 3
                      /\ alist.options[1].label = "Instant mix"
                      /\ alist.options[1].sets = 3
                      /\ alist.options[1].selected = "OpenInBrowser"
                      /\ alist.options[2].label = "Show similar"
                      /\ alist.options[2].selected = Nil
                      /\ alist.options[3].label = "Open in browser"
                      /\ alist.options[3].selected = Nil
  /\ wobs.op = "option"
       => wobs.calls = IF wobs.idx = 1 THEN <<"OpenInBrowser">> ELSE <<>>

\* The user has picked 'Show similar' in a list that holds albums and whose
\* similar function is showSimilarArtists, and nothing was called.
C29_Witness ==
  /\ wobs.op = "option"
  /\ wobs.idx = 2
  /\ wobs.calls = <<>>
  /\ alist.similarEnabled
  /\ alist.similarFunc = "showSimilarArtists"
  /\ alist.list # <<>>

\* C30 (as claimed): while a modal is open it has the input focus, and no key
\* changes the current content screen under it.
C30_ModalHoldsFocus ==
  [][/\ hasModal' => focus' = modal'
     /\ (hasModal /\ hasModal') => mediaView' = mediaView]_vars

\* C31 (as claimed): whenever showModal runs with no modal open, the
\* application's focus is a primitive, not nil, so showModal can blur it.
C31_ShowModalHasFocus ==
  [][(ShowModalCalled' /\ ~hasModal) => focus # Nil]_vars

\* C32 (as claimed): selecting a category changes the flags, page, contents
\* and title of the category's own screen only, and of no other screen.
C32_SelectMediaTouchesTargetOnly ==
  [][lastOp'.ev = "selectMedia"
       => \A s \in Screens \ {MediaTarget[lastOp'.arg]} : view'[s] = view[s]]_vars

\* C33 (as claimed): a page selected on the artist list is fetched from the
\* collection that filled the list: album artists after the Album Artists
\* category, all artists after the Artists category.
C33_ArtistPageSameCollection ==
  [][(/\ lastOp'.ev = "showArtistPage"
      /\ lastOp'.ok
      /\ view["artistList"].src \in {"GetArtists", "GetAlbumArtists"})
       => view'["artistList"].src = view["artistList"].src]_vars

\* C34 (as claimed): no key and no context menu item of a PlaylistView indexes
\* the songs slice out of range.
C34_SongIndexInRange ==
  wobs.op \in {"key", "context", "playAll"} => ~wobs.panic

\* C35: with row k of a playlist of n songs selected (0 <= k < n),
\* playFromSelected passes the songs of rows k to n-1 in playlist order to
\* playSongsFunc, playAll passes all n songs in order, Enter passes the song
\* of row k to playSongFunc, and none of them changes the songs or the
\* selection of the view.
C35_PlayPassesTheRows ==
  [][LET k == pview.selected
         n == Len(pview.playlist)
     IN k < n
          => /\ (wobs'.op = "context" /\ wobs'.key = "Play all from here")
                  => /\ wobs'.calls = <<[fn |-> "playSongs",
                                         songs |-> SubSeq(pview.playlist, k + 1, n)]>>
                     /\ pview' = pview
             /\ wobs'.op = "playAll"
                  => /\ wobs'.calls = <<[fn |-> "playSongs",
                                         songs |-> pview.playlist]>>
                     /\ pview' = pview
             /\ (wobs'.op = "key" /\ wobs'.key = "Enter" /\ pview.listFocused)
                  => /\ wobs'.calls = <<[fn |-> "playSong",
                                         song |-> pview.playlist[k + 1]]>>
                     /\ pview' = pview]_vars

\* 'Play all from here' on the second row of a playlist of two different
\* songs has passed the second song alone.
C35_Witness ==
  /\ wobs.op = "context"
  /\ wobs.key = "Play all from here"
  /\ pview.selected = 1
  /\ Len(pview.playlist) = 2
  /\ pview.playlist[1] # pview.playlist[2]
  /\ wobs.calls = <<[fn |-> "playSongs", songs |-> <<pview.playlist[2]>>]>>

\* C36: going back and showing a page of the artist list (setViewWidget with
\* updatePrevious false) change no screen's previous link, and going back
\* changes nothing of the Window but the current screen, the focus and
\* lastFocus; selecting the category whose screen is already current
\* (setViewWidget with p current) changes neither the current screen, nor any
\* previous link, nor the focus, nor lastFocus.
C36_BackKeepsLinks ==
  [][/\ lastOp'.ev = "back"
          => UNCHANGED <<appState, hasModal, modal, visible, overlay,
                         mediaViewSelected, last, view, navCount, msgText,
                         helpStats, songsShowPage, results, updates>>
     /\ lastOp'.ev = "showArtistPage" => last' = last
     /\ (lastOp'.ev = "selectMedia" /\ MediaTarget[lastOp'.arg] = mediaView)
          => UNCHANGED <<mediaView, gridView, last, lastFocus, focus,
                         hasFocus>>]_vars

\* Back from the albums of an artist to the artist list: the artist list is
\* current again and the album list still points to it.
C36_Witness ==
  /\ lastOp.ev = "back"
  /\ lastOp.arg = "albumList"
  /\ mediaView = "artistList"
  /\ focus = "artistList"
  /\ lastFocus = "albumList"
  /\ last["albumList"] = "artistList"
  /\ last["artistList"] = Nil

\* C37 (as claimed): Gui.layout returns an error whenever one of its two draws
\* failed with an error other than unknown-view.
C37_LayoutReportsDrawError ==
  (wobs.op = "layout" /\ \E i \in 1 .. 2 : wobs.calls[i] = "other")
    => wobs.ret # "nil"

====
